---------------------------- MODULE Spec2Model ----------------------------
(***************************************************************************)
(* A model of cozy's state maintenance core (cozy/state_maintenance.py):   *)
(* mutate, bag_delta / checked_bag_delta, fork / resolve_forks,            *)
(* better_mutate and sketch_update, over a small typed expression and      *)
(* statement language, with a bounded evaluator and validity oracle.       *)
(*                                                                         *)
(* Expressions and statements are records whose field k is the name of the *)
(* AST class; the other fields carry the names the source uses             *)
(* (e, e1, e2, op, cond, then_branch, else_branch, f, p, arg, body, ...).  *)
(* A Python exception is a record whose k is the exception class; every    *)
(* operator that models a function returns either its value or the         *)
(* exception it terminates with, and arguments are evaluated in Python's   *)
(* left-to-right order.                                                    *)
(***************************************************************************)
EXTENDS Integers, Sequences, FiniteSets, TLC

(***************************************************************************)
(* Bounds of the model.                                                    *)
(***************************************************************************)
\* collection elements and integer arguments range over 0..MaxVal
MaxVal == 2
\* a bag held by a state variable has at most MaxLen elements
MaxLen == 2

Val == 0..MaxVal

(***************************************************************************)
(* Bags: functions from Val to multiplicities.                             *)
(***************************************************************************)
RECURSIVE SumUpTo(_, _)
SumUpTo(g, i) == IF i < 0 THEN 0 ELSE g[i] + SumUpTo(g, i - 1)

BagSize(b) == SumUpTo(b, MaxVal)

EmptyBag == [v \in Val |-> 0]

BagOf(x) == [v \in Val |-> IF v = x THEN 1 ELSE 0]

BagPlus(a, b) == [v \in Val |-> a[v] + b[v]]

BagMinus(a, b) == [v \in Val |-> IF a[v] > b[v] THEN a[v] - b[v] ELSE 0]

BagMeet(a, b) == [v \in Val |-> IF a[v] < b[v] THEN a[v] ELSE b[v]]

BagDistinct(a) == [v \in Val |-> IF a[v] > 0 THEN 1 ELSE 0]

BagElems(b) == {v \in Val : b[v] > 0}

SubBag(a, b) == \A v \in Val : a[v] <= b[v]

Bags == {b \in [Val -> 0..MaxLen] : BagSize(b) <= MaxLen}

SetMin(S) == CHOOSE x \in S : \A y \in S : x <= y

SetMax(S) == CHOOSE x \in S : \A y \in S : x >= y

(***************************************************************************)
(* Maps: a map value is a function from a set of keys (a subset of Val) to *)
(* Val; a missing key reads as the default value 0 of the value type.      *)
(***************************************************************************)
Maps == UNION {[K -> Val] : K \in SUBSET Val}

DefaultValue == 0

(***************************************************************************)
(* Expression syntax (cozy.syntax, cozy.target_syntax).                    *)
(***************************************************************************)
EVar(id, ty) == [k |-> "EVar", id |-> id, type |-> ty]
ENum(n) == [k |-> "ENum", val |-> n]
EBool(b) == [k |-> "EBool", bval |-> b]
T == EBool(TRUE)
F == EBool(FALSE)
ZERO == ENum(0)
ONE == ENum(1)
EEmptyList == [k |-> "EEmptyList"]
ESingleton(e) == [k |-> "ESingleton", e |-> e]
EBinOp(e1, op, e2) == [k |-> "EBinOp", e1 |-> e1, op |-> op, e2 |-> e2]
EUnaryOp(op, e) == [k |-> "EUnaryOp", op |-> op, e |-> e]
ECond(c, t, e) == [k |-> "ECond", cond |-> c, then_branch |-> t, else_branch |-> e]
ELambda(arg, body) == [k |-> "ELambda", arg |-> arg, body |-> body]
EFilter(e, p) == [k |-> "EFilter", e |-> e, p |-> p]
EMap(e, f) == [k |-> "EMap", e |-> e, f |-> f]
EFlatMap(e, f) == [k |-> "EFlatMap", e |-> e, f |-> f]
EArgMin(e, f) == [k |-> "EArgMin", e |-> e, f |-> f]
EArgMax(e, f) == [k |-> "EArgMax", e |-> e, f |-> f]
EStateVar(e) == [k |-> "EStateVar", e |-> e]
EIntersect(e1, e2) == [k |-> "EIntersect", e1 |-> e1, e2 |-> e2]
ECountIn(e, bag) == [k |-> "ECountIn", e |-> e, bag |-> bag]
EMakeMinHeap(e, f) == [k |-> "EMakeMinHeap", e |-> e, f |-> f]
EMakeMaxHeap(e, f) == [k |-> "EMakeMaxHeap", e |-> e, f |-> f]
EHeapPeek2(e, n) == [k |-> "EHeapPeek2", e |-> e, n |-> n]
EMapKeys(e) == [k |-> "EMapKeys", e |-> e]
EMapGet(map, key) == [k |-> "EMapGet", map |-> map, key |-> key]
EMakeMap2(e, value) == [k |-> "EMakeMap2", e |-> e, value |-> value]
EGetField(e, f) == [k |-> "EGetField", e |-> e, f |-> f]
\* EMakeRecord of the two fields fst and snd
EMakeRecord(fst, snd) == [k |-> "EMakeRecord", e1 |-> fst, e2 |-> snd]

ENot(e) == EUnaryOp("not", e)
EExists(e) == EUnaryOp("exists", e)
EEmpty(e) == EUnaryOp("empty", e)
ELen(e) == EUnaryOp("len", e)
EEq(e1, e2) == EBinOp(e1, "==", e2)
ENe(e1, e2) == EBinOp(e1, "!=", e2)
EGt(e1, e2) == EBinOp(e1, ">", e2)
EGe(e1, e2) == EBinOp(e1, ">=", e2)
ELe(e1, e2) == EBinOp(e1, "<=", e2)
EIn(e1, e2) == EBinOp(e1, "in", e2)
EImplies(e1, e2) == EBinOp(e1, "=>", e2)

\* EAll / EAny over two operands: the neutral element is dropped
EAll2(a, b) == IF a = T THEN b ELSE IF b = T THEN a
               ELSE IF a = F \/ b = F THEN F ELSE EBinOp(a, "and", b)
EAny2(a, b) == IF a = F THEN b ELSE IF b = F THEN a
               ELSE IF a = T \/ b = T THEN T ELSE EBinOp(a, "or", b)

\* node shapes, for the generic traversals
HasE(e) == e.k \in {"ESingleton", "EUnaryOp", "EStateVar", "EMapKeys", "EGetField"}
HasE1E2(e) == e.k \in {"EBinOp", "EIntersect", "EMakeRecord"}
HasEF(e) == e.k \in {"EMap", "EFlatMap", "EArgMin", "EArgMax", "EMakeMinHeap", "EMakeMaxHeap"}
IsLeaf(e) == e.k \in {"EVar", "ENum", "EBool", "EEmptyList"}


(***************************************************************************)
(* The functions of state_maintenance.py and the tools they rely on call   *)
(* one another, and themselves,                                            *)
(* through the one recursive operator Call: f(...) stands for the call,    *)
(* f_body(...) is the function's code, and Call runs the code of the       *)
(* function it is given the name of.                                       *)
(***************************************************************************)
RECURSIVE Call(_, _)

mutate(e, op) == Call("mutate", <<e, op>>)

fork(context, assumptions, c, then_branch, else_branch) == Call("fork", <<context, assumptions, c, then_branch, else_branch>>)

flatmap(context, assumptions, e, f) == Call("flatmap", <<context, assumptions, e, f>>)

bag_intersection(context, assumptions, e1, e2) == Call("bag_intersection", <<context, assumptions, e1, e2>>)

bag_subtract(context, assumptions, e1, e2) == Call("bag_subtract", <<context, assumptions, e1, e2>>)

bag_delta(e, context, s, assumptions) == Call("bag_delta", <<e, context, s, assumptions>>)

better_mutate(e, context, op, assumptions) == Call("better_mutate", <<e, context, op, assumptions>>)

became_bool(e, context, s, val, assumptions) == Call("became_bool", <<e, context, s, val, assumptions>>)

resolve_forks(assumptions, func) == Call("resolve_forks", <<assumptions, func>>)

flatmap_delta(e, context, s, assumptions) == Call("flatmap_delta", <<e, context, s, assumptions>>)

sketch_update_from(n, lval, old_value, new_value, ctx, assumptions, invariants) == Call("sketch_update_from", <<n, lval, old_value, new_value, ctx, assumptions, invariants>>)

alpha_equivalent(e1, e2) == Call("alpha_equivalent", <<e1, e2>>)

valid(formula) == Call("valid", <<formula>>)

cond(c, t, e) == Call("cond", <<c, t, e>>)

simplify(e) == Call("simplify", <<e>>)

minimal_model(formula) == Call("minimal_model", <<formula>>)

(***************************************************************************)
(* Syntax tools (cozy.syntax_tools): size, free variables, fresh names,    *)
(* capture-avoiding substitution and alpha equivalence.                    *)
(***************************************************************************)
RECURSIVE ExpSize(_)
ExpSize(e) ==
    CASE IsLeaf(e) -> 1
      [] HasE(e) -> 1 + ExpSize(e.e)
      [] HasE1E2(e) -> 1 + ExpSize(e.e1) + ExpSize(e.e2)
      [] e.k = "ECond" -> 1 + ExpSize(e.cond) + ExpSize(e.then_branch) + ExpSize(e.else_branch)
      [] e.k = "ELambda" -> 2 + ExpSize(e.body)
      [] HasEF(e) -> 1 + ExpSize(e.e) + ExpSize(e.f)
      [] e.k = "EFilter" -> 1 + ExpSize(e.e) + ExpSize(e.p)
      [] e.k = "ECountIn" -> 1 + ExpSize(e.e) + ExpSize(e.bag)
      [] e.k = "EHeapPeek2" -> 1 + ExpSize(e.e) + ExpSize(e.n)
      [] e.k = "EMapGet" -> 1 + ExpSize(e.map) + ExpSize(e.key)
      [] e.k = "EMakeMap2" -> 1 + ExpSize(e.e) + ExpSize(e.value)
      [] e.k = "ECall" -> 1 + Len(e.args)

RECURSIVE free_vars(_)
free_vars(e) ==
    CASE e.k = "EVar" -> {e}
      [] e.k \in {"ENum", "EBool", "EEmptyList"} -> {}
      [] HasE(e) -> free_vars(e.e)
      [] HasE1E2(e) -> free_vars(e.e1) \cup free_vars(e.e2)
      [] e.k = "ECond" -> free_vars(e.cond) \cup free_vars(e.then_branch) \cup free_vars(e.else_branch)
      [] e.k = "ELambda" -> {v \in free_vars(e.body) : v.id # e.arg.id}
      [] HasEF(e) -> free_vars(e.e) \cup free_vars(e.f)
      [] e.k = "EFilter" -> free_vars(e.e) \cup free_vars(e.p)
      [] e.k = "ECountIn" -> free_vars(e.e) \cup free_vars(e.bag)
      [] e.k = "EHeapPeek2" -> free_vars(e.e) \cup free_vars(e.n)
      [] e.k = "EMapGet" -> free_vars(e.map) \cup free_vars(e.key)
      [] e.k = "EMakeMap2" -> free_vars(e.e) \cup free_vars(e.value)
      [] e.k = "ECall" -> {e.args[i] : i \in 1..Len(e.args)}

FreeIds(e) == {v.id : v \in free_vars(e)}

\* every variable name that occurs in e, free or bound
RECURSIVE AllIds(_)
AllIds(e) ==
    CASE e.k = "EVar" -> {e.id}
      [] e.k \in {"ENum", "EBool", "EEmptyList"} -> {}
      [] HasE(e) -> AllIds(e.e)
      [] HasE1E2(e) -> AllIds(e.e1) \cup AllIds(e.e2)
      [] e.k = "ECond" -> AllIds(e.cond) \cup AllIds(e.then_branch) \cup AllIds(e.else_branch)
      [] e.k = "ELambda" -> {e.arg.id} \cup AllIds(e.body)
      [] HasEF(e) -> AllIds(e.e) \cup AllIds(e.f)
      [] e.k = "EFilter" -> AllIds(e.e) \cup AllIds(e.p)
      [] e.k = "ECountIn" -> AllIds(e.e) \cup AllIds(e.bag)
      [] e.k = "EHeapPeek2" -> AllIds(e.e) \cup AllIds(e.n)
      [] e.k = "EMapGet" -> AllIds(e.map) \cup AllIds(e.key)
      [] e.k = "EMakeMap2" -> AllIds(e.e) \cup AllIds(e.value)
      [] e.k = "ECall" -> {e.args[i].id : i \in 1..Len(e.args)}

FreshNames == <<"_var1", "_var2", "_var3", "_var4", "_var5", "_var6", "_var7", "_var8">>

\* fresh_var: a variable whose name occurs nowhere in the expressions at hand
fresh_var(ty, omit) ==
    LET i == CHOOSE j \in 1..Len(FreshNames) :
                 /\ FreshNames[j] \notin omit
                 /\ \A h \in 1..(j - 1) : FreshNames[h] \in omit
    IN EVar(FreshNames[i], ty)

RECURSIVE subst(_, _, _)
subst(e, id, val) ==
    CASE e.k = "EVar" -> IF e.id = id THEN val ELSE e
      [] e.k \in {"ENum", "EBool", "EEmptyList", "ECall"} -> e
      [] HasE(e) -> [e EXCEPT !.e = subst(e.e, id, val)]
      [] HasE1E2(e) -> [e EXCEPT !.e1 = subst(e.e1, id, val), !.e2 = subst(e.e2, id, val)]
      [] e.k = "ECond" -> [e EXCEPT !.cond = subst(e.cond, id, val),
                                    !.then_branch = subst(e.then_branch, id, val),
                                    !.else_branch = subst(e.else_branch, id, val)]
      [] e.k = "ELambda" ->
           IF e.arg.id = id THEN e
           ELSE IF e.arg.id \in FreeIds(val)
                THEN LET v == fresh_var(e.arg.type, AllIds(e) \cup AllIds(val) \cup {id})
                     IN ELambda(v, subst(subst(e.body, e.arg.id, v), id, val))
                ELSE ELambda(e.arg, subst(e.body, id, val))
      [] HasEF(e) -> [e EXCEPT !.e = subst(e.e, id, val), !.f = subst(e.f, id, val)]
      [] e.k = "EFilter" -> [e EXCEPT !.e = subst(e.e, id, val), !.p = subst(e.p, id, val)]
      [] e.k = "ECountIn" -> [e EXCEPT !.e = subst(e.e, id, val), !.bag = subst(e.bag, id, val)]
      [] e.k = "EHeapPeek2" -> [e EXCEPT !.e = subst(e.e, id, val), !.n = subst(e.n, id, val)]
      [] e.k = "EMapGet" -> [e EXCEPT !.map = subst(e.map, id, val), !.key = subst(e.key, id, val)]
      [] e.k = "EMakeMap2" -> [e EXCEPT !.e = subst(e.e, id, val), !.value = subst(e.value, id, val)]

\* ELambda.apply_to
apply_to(f, x) == subst(f.body, f.arg.id, x)

\* bound variables renamed to the name of their binding depth
BoundNames == <<"#1", "#2", "#3", "#4", "#5", "#6">>

RECURSIVE Canon(_, _)
Canon(e, d) ==
    CASE IsLeaf(e) \/ e.k = "ECall" -> e
      [] HasE(e) -> [e EXCEPT !.e = Canon(e.e, d)]
      [] HasE1E2(e) -> [e EXCEPT !.e1 = Canon(e.e1, d), !.e2 = Canon(e.e2, d)]
      [] e.k = "ECond" -> [e EXCEPT !.cond = Canon(e.cond, d),
                                    !.then_branch = Canon(e.then_branch, d),
                                    !.else_branch = Canon(e.else_branch, d)]
      [] e.k = "ELambda" ->
           LET v == EVar(BoundNames[d + 1], e.arg.type)
           IN ELambda(v, Canon(subst(e.body, e.arg.id, v), d + 1))
      [] HasEF(e) -> [e EXCEPT !.e = Canon(e.e, d), !.f = Canon(e.f, d)]
      [] e.k = "EFilter" -> [e EXCEPT !.e = Canon(e.e, d), !.p = Canon(e.p, d)]
      [] e.k = "ECountIn" -> [e EXCEPT !.e = Canon(e.e, d), !.bag = Canon(e.bag, d)]
      [] e.k = "EHeapPeek2" -> [e EXCEPT !.e = Canon(e.e, d), !.n = Canon(e.n, d)]
      [] e.k = "EMapGet" -> [e EXCEPT !.map = Canon(e.map, d), !.key = Canon(e.key, d)]
      [] e.k = "EMakeMap2" -> [e EXCEPT !.e = Canon(e.e, d), !.value = Canon(e.value, d)]

alpha_equivalent_body(e1, e2) == Canon(e1, 0) = Canon(e2, 0)

(***************************************************************************)
(* Types (cozy.typecheck): Int, Bool, Bag (of Int or of handles), Map (Int *)
(* to Int), two handle types with an Int payload, and one record type with *)
(* the Int fields fst and snd.                                             *)
(***************************************************************************)
HandleTypes == {"Handle", "Handle2"}

RECURSIVE TypeOf(_)
TypeOf(e) ==
    CASE e.k \in {"EVar", "ECall"} -> e.type
      [] e.k \in {"ENum", "ECountIn", "EHeapPeek2", "EArgMin", "EArgMax", "EMapGet"} -> "Int"
      [] e.k = "EBool" -> "Bool"
      [] e.k \in {"EEmptyList", "ESingleton", "EFilter", "EMap", "EFlatMap",
                  "EIntersect", "EMapKeys"} -> "Bag"
      [] e.k \in {"EMakeMinHeap", "EMakeMaxHeap"} -> "Heap"
      [] e.k = "EMakeMap2" -> "Map"
      [] e.k = "EBinOp" -> IF e.op \in {"+", "-"} THEN TypeOf(e.e1) ELSE "Bool"
      [] e.k = "EUnaryOp" -> IF e.op = "distinct" THEN "Bag"
                             ELSE IF e.op \in {"len", "the"} THEN "Int" ELSE "Bool"
      [] e.k = "ECond" -> TypeOf(e.then_branch)
      [] e.k = "EStateVar" -> TypeOf(e.e)
      [] e.k = "EGetField" -> "Int"
      [] e.k = "EMakeRecord" -> "Record"

is_collection(e) == TypeOf(e) = "Bag"

(***************************************************************************)
(* Evaluation (cozy.evaluation.eval) in an environment: a function from    *)
(* variable names to values.  EStateVar is transparent: a cached           *)
(* expression reads as the value it has in the environment.  A handle is   *)
(* its address; the environment holds, under the name of each handle type, *)
(* the payload stored at each address.  A record is the pair of its fields.*)
(***************************************************************************)
FieldIndex(f) == IF f = "fst" THEN 1 ELSE 2

Bind(env, id, v) == (id :> v) @@ env

RECURSIVE Eval(_, _)

KeyOf(f, v, env) == Eval(f.body, Bind(env, f.arg.id, v))

\* the element of bag b with the least (greatest) key, the default on an empty bag
ArgBest(b, f, env, least) ==
    LET S == BagElems(b)
    IN IF S = {} THEN DefaultValue
       ELSE LET keys == {KeyOf(f, v, env) : v \in S}
                best == IF least THEN SetMin(keys) ELSE SetMax(keys)
            IN SetMin({v \in S : KeyOf(f, v, env) = best})

\* the heap under a (cached) heap expression
HeapOf(h) == IF h.k = "EStateVar" THEN h.e ELSE h

Eval(e, env) ==
    CASE e.k = "EVar" -> env[e.id]
      [] e.k = "ENum" -> e.val
      [] e.k = "EBool" -> e.bval
      [] e.k = "EEmptyList" -> EmptyBag
      [] e.k = "ESingleton" -> BagOf(Eval(e.e, env))
      [] e.k = "EStateVar" -> Eval(e.e, env)
      [] e.k = "EBinOp" ->
           (LET a == Eval(e.e1, env)
               b == Eval(e.e2, env)
           IN CASE e.op = "+" -> IF TypeOf(e.e1) = "Bag" THEN BagPlus(a, b) ELSE a + b
                [] e.op = "-" -> IF TypeOf(e.e1) = "Bag" THEN BagMinus(a, b) ELSE a - b
                [] e.op = "==" -> a = b
                [] e.op = "!=" -> a # b
                [] e.op = "and" -> a /\ b
                [] e.op = "or" -> a \/ b
                [] e.op = "=>" -> a => b
                [] e.op = "in" -> b[a] > 0
                [] e.op = ">" -> a > b
                [] e.op = ">=" -> a >= b
                [] e.op = "<" -> a < b
                [] e.op = "<=" -> a <= b)
      [] e.k = "EUnaryOp" ->
           (LET a == Eval(e.e, env)
           IN CASE e.op = "not" -> ~a
                [] e.op = "exists" -> BagSize(a) > 0
                [] e.op = "empty" -> BagSize(a) = 0
                [] e.op = "len" -> BagSize(a)
                [] e.op = "distinct" -> BagDistinct(a)
                [] e.op = "the" -> IF BagElems(a) = {} THEN DefaultValue ELSE SetMin(BagElems(a)))
      [] e.k = "ECond" -> IF Eval(e.cond, env) THEN Eval(e.then_branch, env)
                          ELSE Eval(e.else_branch, env)
      [] e.k = "EFilter" ->
           LET b == Eval(e.e, env)
           IN [v \in Val |-> IF b[v] > 0 /\ KeyOf(e.p, v, env) THEN b[v] ELSE 0]
      [] e.k = "EMap" ->
           LET b == Eval(e.e, env)
           IN [w \in Val |-> SumUpTo([v \in Val |-> IF b[v] > 0 /\ KeyOf(e.f, v, env) = w
                                                    THEN b[v] ELSE 0], MaxVal)]
      [] e.k = "EFlatMap" ->
           LET b == Eval(e.e, env)
           IN [w \in Val |-> SumUpTo([v \in Val |-> IF b[v] > 0
                                                    THEN b[v] * KeyOf(e.f, v, env)[w]
                                                    ELSE 0], MaxVal)]
      [] e.k = "EArgMin" -> ArgBest(Eval(e.e, env), e.f, env, TRUE)
      [] e.k = "EArgMax" -> ArgBest(Eval(e.e, env), e.f, env, FALSE)
      [] e.k \in {"EMakeMinHeap", "EMakeMaxHeap"} -> Eval(e.e, env)
      [] e.k = "EHeapPeek2" ->
           LET h == HeapOf(e.e)
               b == Eval(h.e, env)
               least == h.k = "EMakeMinHeap"
               rest == BagMinus(b, BagOf(ArgBest(b, h.f, env, least)))
           IN ArgBest(rest, h.f, env, least)
      [] e.k = "EIntersect" -> BagMeet(Eval(e.e1, env), Eval(e.e2, env))
      [] e.k = "ECountIn" -> Eval(e.bag, env)[Eval(e.e, env)]
      [] e.k = "EMapKeys" -> LET m == Eval(e.e, env)
                             IN [v \in Val |-> IF v \in DOMAIN m THEN 1 ELSE 0]
      [] e.k = "EMapGet" -> LET m == Eval(e.map, env)
                                key == Eval(e.key, env)
                            IN IF key \in DOMAIN m THEN m[key] ELSE DefaultValue
      [] e.k = "EMakeMap2" -> LET b == Eval(e.e, env)
                              IN [key \in BagElems(b) |-> KeyOf(e.value, key, env)]
      [] e.k = "EGetField" ->
           IF TypeOf(e.e) \in HandleTypes THEN env[TypeOf(e.e)][Eval(e.e, env)]
           ELSE Eval(e.e, env)[FieldIndex(e.f)]
      [] e.k = "EMakeRecord" -> <<Eval(e.e1, env), Eval(e.e2, env)>>


(***************************************************************************)
(* Statement syntax (cozy.syntax, cozy.target_syntax).                     *)
(***************************************************************************)
SNoOp == [k |-> "SNoOp"]
SAssign(lhs, rhs) == [k |-> "SAssign", lhs |-> lhs, rhs |-> rhs]
SCall(target, func, args) == [k |-> "SCall", target |-> target, func |-> func, args |-> args]
SIf(c, t, e) == [k |-> "SIf", cond |-> c, then_branch |-> t, else_branch |-> e]
SSeq(s1, s2) == [k |-> "SSeq", s1 |-> s1, s2 |-> s2]
SDecl(id, val) == [k |-> "SDecl", id |-> id, val |-> val]
SForEach(id, iter, body) == [k |-> "SForEach", id |-> id, iter |-> iter, body |-> body]
SMapDel(map, key) == [k |-> "SMapDel", map |-> map, key |-> key]
SMapUpdate(map, key, val_var, change) ==
    [k |-> "SMapUpdate", map |-> map, key |-> key, val_var |-> val_var, change |-> change]

\* syntax.seq: the statements of a list in sequence, no-ops dropped
seq2(a, b) == IF a.k = "SNoOp" THEN b ELSE IF b.k = "SNoOp" THEN a ELSE SSeq(a, b)

RECURSIVE StmIds(_)
StmIds(s) ==
    CASE s.k = "SNoOp" -> {}
      [] s.k = "SAssign" -> AllIds(s.lhs) \cup AllIds(s.rhs)
      [] s.k = "SCall" -> AllIds(s.target) \cup AllIds(s.args[1])
      [] s.k = "SIf" -> AllIds(s.cond) \cup StmIds(s.then_branch) \cup StmIds(s.else_branch)
      [] s.k = "SSeq" -> StmIds(s.s1) \cup StmIds(s.s2)
      [] s.k = "SDecl" -> {s.id} \cup AllIds(s.val)
      [] s.k = "SForEach" -> {s.id.id} \cup AllIds(s.iter) \cup StmIds(s.body)
      [] s.k = "SMapDel" -> AllIds(s.map) \cup AllIds(s.key)
      [] s.k = "SMapUpdate" -> AllIds(s.map) \cup AllIds(s.key) \cup {s.val_var.id} \cup StmIds(s.change)

(***************************************************************************)
(* Exceptions.                                                             *)
(***************************************************************************)
Raise(cls) == [k |-> cls]
ForkOn(c) == [k |-> "ForkOn", cond |-> c]
NotEfficient(e) == [k |-> "NotEfficient", expression |-> e]
Raised(r) == r.k \in {"ForkOn", "NotEfficient", "NotImplementedError", "ValueError",
                     "AssertionError", "TypeError", "Exception"}

(***************************************************************************)
(* mutate: the value of e after op, as an expression over the state        *)
(* before op.                                                              *)
(***************************************************************************)
\* _do_assignment that leaves the expression as it was
_do_assignment_kept(lval, new_value, e) == e

\* the rewriter of replace_get_value: every read of a payload through a
\* handle of type t becomes a choice on whether that handle is ptr
RECURSIVE ReplaceVisit(_, _, _, _, _)
ReplaceVisit(e, t, fvs, ptr, new_value) ==
    LET V(a) == ReplaceVisit(a, t, fvs, ptr, new_value)
    IN CASE IsLeaf(e) \/ e.k = "ECall" -> e
         [] e.k = "ELambda" ->
              LET renamed == IF e.arg.id \in fvs
                             THEN LET v == fresh_var(e.arg.type, fvs)
                                  IN ELambda(v, apply_to(e, v))
                             ELSE e
              IN ELambda(renamed.arg, V(renamed.body))
         [] e.k = "EGetField" ->
              LET ee == V(e.e)
                  got == EGetField(ee, e.f)
              IN IF TypeOf(e.e) = t /\ e.f = "val"
                 THEN ECond(EEq(ee, ptr), new_value, got)
                 ELSE got
         [] HasE(e) /\ e.k # "EGetField" -> [e EXCEPT !.e = V(e.e)]
         [] HasE1E2(e) -> [e EXCEPT !.e1 = V(e.e1), !.e2 = V(e.e2)]
         [] e.k = "ECond" -> [e EXCEPT !.cond = V(e.cond),
                                       !.then_branch = V(e.then_branch),
                                       !.else_branch = V(e.else_branch)]
         [] HasEF(e) -> [e EXCEPT !.e = V(e.e), !.f = V(e.f)]
         [] e.k = "EFilter" -> [e EXCEPT !.e = V(e.e), !.p = V(e.p)]
         [] e.k = "ECountIn" -> [e EXCEPT !.e = V(e.e), !.bag = V(e.bag)]
         [] e.k = "EHeapPeek2" -> [e EXCEPT !.e = V(e.e), !.n = V(e.n)]
         [] e.k = "EMapGet" -> [e EXCEPT !.map = V(e.map), !.key = V(e.key)]
         [] e.k = "EMakeMap2" -> [e EXCEPT !.e = V(e.e), !.value = V(e.value)]

replace_get_value(e, ptr, new_value) ==
    ReplaceVisit(e, TypeOf(ptr), FreeIds(ptr) \cup FreeIds(new_value), ptr, new_value)

_replace_field(record, field, new_value) ==
    EMakeRecord(IF field = "fst" THEN new_value ELSE EGetField(record, "fst"),
                IF field = "snd" THEN new_value ELSE EGetField(record, "snd"))

RECURSIVE _do_assignment(_, _, _)
_do_assignment(lval, new_value, e) ==
    IF lval.k = "EVar" THEN subst(e, lval.id, new_value)
    ELSE IF lval.k = "EGetField"
    THEN IF TypeOf(lval.e) \in HandleTypes
         THEN IF lval.f # "val" THEN Raise("AssertionError")
              ELSE replace_get_value(e, lval.e, new_value)
         ELSE _do_assignment(lval.e, _replace_field(lval.e, lval.f, new_value), e)
    ELSE Raise("Exception")

\* mutate with the two halves of a sequence applied in the order they are
\* written: the first statement closest to e
mutate_reversed(e, op) ==
    CASE op.k = "SNoOp" -> e
      [] op.k = "SAssign" -> _do_assignment(op.lhs, op.rhs, e)
      [] op.k = "SCall" ->
           (CASE op.func = "add" ->
                   mutate(e, SCall(op.target, "add_all", <<ESingleton(op.args[1])>>))
              [] op.func = "add_all" ->
                   mutate(e, SAssign(op.target, EBinOp(op.target, "+", op.args[1])))
              [] op.func = "remove" ->
                   mutate(e, SCall(op.target, "remove_all", <<ESingleton(op.args[1])>>))
              [] op.func = "remove_all" ->
                   mutate(e, SAssign(op.target, EBinOp(op.target, "-", op.args[1])))
              [] OTHER -> Raise("Exception"))
      [] op.k = "SIf" ->
           (LET then_branch == mutate(e, op.then_branch)
                else_branch == mutate(e, op.else_branch)
            IN IF Raised(then_branch) THEN then_branch
               ELSE IF Raised(else_branch) THEN else_branch
               ELSE IF alpha_equivalent(then_branch, else_branch) THEN then_branch
               ELSE ECond(op.cond, then_branch, else_branch))
      [] op.k = "SSeq" ->
           IF op.s1.k = "SSeq"
           THEN mutate(e, SSeq(op.s1.s1, SSeq(op.s1.s2, op.s2)))
           ELSE (LET e1 == mutate(e, op.s1)
                     e2 == IF Raised(e1) THEN e1 ELSE mutate(e1, op.s2)
                 IN IF Raised(e2) THEN e2
                    ELSE IF op.s1.k = "SDecl" THEN subst(e2, op.s1.id, op.s1.val)
                    ELSE e2)
      [] op.k = "SDecl" -> e
      [] OTHER -> Raise("NotImplementedError")

mutate_body(e, op) ==
    CASE op.k = "SNoOp" -> e
      [] op.k = "SAssign" -> _do_assignment(op.lhs, op.rhs, e)
      [] op.k = "SCall" ->
           (CASE op.func = "add" ->
                   mutate(e, SCall(op.target, "add_all", <<ESingleton(op.args[1])>>))
              [] op.func = "add_all" ->
                   mutate(e, SAssign(op.target, EBinOp(op.target, "+", op.args[1])))
              [] op.func = "remove" ->
                   mutate(e, SCall(op.target, "remove_all", <<ESingleton(op.args[1])>>))
              [] op.func = "remove_all" ->
                   mutate(e, SAssign(op.target, EBinOp(op.target, "-", op.args[1])))
              [] OTHER -> Raise("Exception"))
      [] op.k = "SIf" ->
           (LET then_branch == mutate(e, op.then_branch)
                else_branch == mutate(e, op.else_branch)
            IN IF Raised(then_branch) THEN then_branch
               ELSE IF Raised(else_branch) THEN else_branch
               ELSE IF alpha_equivalent(then_branch, else_branch) THEN then_branch
               ELSE ECond(op.cond, then_branch, else_branch))
      [] op.k = "SSeq" ->
           IF op.s1.k = "SSeq"
           THEN mutate(e, SSeq(op.s1.s1, SSeq(op.s1.s2, op.s2)))
           ELSE (LET e1 == mutate(e, op.s2)
                     e2 == IF Raised(e1) THEN e1 ELSE mutate(e1, op.s1)
                 IN IF Raised(e2) THEN e2
                    ELSE IF op.s1.k = "SDecl" THEN subst(e2, op.s1.id, op.s1.val)
                    ELSE e2)
      [] op.k = "SDecl" -> e
      [] OTHER -> Raise("NotImplementedError")

(***************************************************************************)
(* Execution of a statement on an environment (the semantics cozy's code   *)
(* generators give to statements).                                         *)
(***************************************************************************)
\* the elements of a bag, in increasing order, each as often as it occurs
RECURSIVE BagToSeq(_, _)
BagToSeq(b, i) ==
    IF i > MaxVal THEN <<>>
    ELSE [j \in 1..b[i] |-> i] \o BagToSeq(b, i + 1)

RECURSIVE Exec(_, _)
RECURSIVE ExecEach(_, _, _, _)

\* an environment that holds a "touched" entry records there each map key a
\* statement deletes or upserts
Touch(env, how, key) ==
    IF "touched" \in DOMAIN env
    THEN [env EXCEPT !["touched"] = @ \cup {<<how, key>>}]
    ELSE env

ExecEach(id, elems, body, env) ==
    IF elems = <<>> THEN env
    ELSE ExecEach(id, Tail(elems), body, Exec(body, Bind(env, id, Head(elems))))

\* the environment after value v is stored in the place lhs names: a
\* variable, the payload of a handle, or a field of a record stored in a place
RECURSIVE Store(_, _, _)
Store(lhs, v, env) ==
    IF lhs.k = "EVar" THEN [env EXCEPT ![lhs.id] = v]
    ELSE IF TypeOf(lhs.e) \in HandleTypes
    THEN [env EXCEPT ![TypeOf(lhs.e)] = [@ EXCEPT ![Eval(lhs.e, env)] = v]]
    ELSE Store(lhs.e, [Eval(lhs.e, env) EXCEPT ![FieldIndex(lhs.f)] = v], env)

Exec(s, env) ==
    CASE s.k = "SNoOp" -> env
      [] s.k = "SAssign" -> Store(s.lhs, Eval(s.rhs, env), env)
      [] s.k = "SCall" ->
           (LET old == env[s.target.id]
                x == Eval(s.args[1], env)
            IN CASE s.func = "add" -> [env EXCEPT ![s.target.id] = BagPlus(old, BagOf(x))]
                 [] s.func = "add_all" -> [env EXCEPT ![s.target.id] = BagPlus(old, x)]
                 [] s.func = "remove" -> [env EXCEPT ![s.target.id] = BagMinus(old, BagOf(x))]
                 [] s.func = "remove_all" -> [env EXCEPT ![s.target.id] = BagMinus(old, x)])
      [] s.k = "SIf" -> IF Eval(s.cond, env) THEN Exec(s.then_branch, env)
                        ELSE Exec(s.else_branch, env)
      [] s.k = "SSeq" -> Exec(s.s2, Exec(s.s1, env))
      [] s.k = "SDecl" -> Bind(env, s.id, Eval(s.val, env))
      [] s.k = "SForEach" ->
           ExecEach(s.id.id, BagToSeq(Eval(s.iter, env), 0), s.body, env)
      [] s.k = "SMapDel" ->
           (LET m == env[s.map.id]
                key == Eval(s.key, env)
            IN [Touch(env, "del", key) EXCEPT ![s.map.id] = [x \in (DOMAIN m) \ {key} |-> m[x]]])
      [] s.k = "SMapUpdate" ->
           (LET m == env[s.map.id]
                key == Eval(s.key, env)
                cur == IF key \in DOMAIN m THEN m[key] ELSE DefaultValue
                after == Exec(s.change, Bind(env, s.val_var.id, cur))
            IN [Touch(env, "upsert", key) EXCEPT ![s.map.id] = (key :> after[s.val_var.id]) @@ m])


(***************************************************************************)
(* The oracle (cozy.solver): validity and satisfiability of a formula      *)
(* over every assignment of its free variables within the bounds.          *)
(***************************************************************************)
IdsOfType(vs, ty) == {v.id : v \in {w \in vs : w.type = ty}}

EnvsFor(vs) ==
    {b @@ i @@ m : b \in [IdsOfType(vs, "Bag") -> Bags],
                   i \in [IdsOfType(vs, "Int") -> Val],
                   m \in [IdsOfType(vs, "Map") -> Maps]}

valid_body(formula) == \A env \in EnvsFor(free_vars(formula)) : Eval(formula, env)

satisfiable(formula) == \E env \in EnvsFor(free_vars(formula)) : Eval(formula, env)

(***************************************************************************)
(* Simplification (cozy.simplification).                                   *)
(***************************************************************************)
\* simplify_cond
cond_body(c, t, e) ==
    IF c = T THEN t
    ELSE IF c = F THEN e
    ELSE IF alpha_equivalent(t, e) THEN t
    ELSE ECond(c, t, e)

simplify_body(e) ==
    CASE e.k = "ECond" -> cond(simplify(e.cond), simplify(e.then_branch), simplify(e.else_branch))
      [] e.k = "ESingleton" -> ESingleton(simplify(e.e))
      [] e.k = "EUnaryOp" /\ e.op = "not" ->
           (LET x == simplify(e.e)
            IN IF x = T THEN F ELSE IF x = F THEN T ELSE ENot(x))
      [] e.k = "EBinOp" ->
           (LET a == simplify(e.e1)
                b == simplify(e.e2)
            IN CASE e.op = "and" -> EAll2(a, b)
                 [] e.op = "or" -> EAny2(a, b)
                 [] e.op = "==" -> IF alpha_equivalent(a, b) THEN T ELSE EEq(a, b)
                 [] OTHER -> EBinOp(a, e.op, b))
      [] OTHER -> e

\* syntax.ESum over two summands
ESum2(a, b) ==
    IF a = ZERO THEN b
    ELSE IF b = ZERO THEN a
    ELSE IF a.k = "ENum" /\ b.k = "ENum" THEN ENum(a.val + b.val)
    ELSE EBinOp(a, "+", b)

(***************************************************************************)
(* Three-valued syntactic judgements.                                      *)
(***************************************************************************)
MAYBE == "MAYBE"
Yes == "True"
No == "False"
Tri(b) == IF b THEN Yes ELSE No

definitely(v) == v = Yes

possibly(v) == v # No

both(x, y) ==
    IF definitely(x) /\ definitely(y) THEN Yes
    ELSE IF possibly(x) /\ possibly(y) THEN MAYBE
    ELSE No

invert(x) ==
    IF definitely(x) THEN No
    ELSE IF ~possibly(x) THEN Yes
    ELSE MAYBE

IsDistinctOp(e) == e.k = "EUnaryOp" /\ e.op = "distinct"
IsPlus(e) == e.k = "EBinOp" /\ e.op = "+"
IsMinus(e) == e.k = "EBinOp" /\ e.op = "-"

are_unique(xs) ==
    IF xs.k = "EEmptyList" THEN Yes
    ELSE IF xs.k = "ESingleton" THEN Yes
    ELSE IF IsDistinctOp(xs) THEN Yes
    ELSE MAYBE

RECURSIVE singleton_or_empty(_)
singleton_or_empty(e) ==
    IF e.k \in {"EEmptyList", "ESingleton"} THEN Yes
    ELSE IF e.k \in {"EStateVar", "EMap", "EFilter"} THEN singleton_or_empty(e.e)
    ELSE IF e.k = "EFlatMap" THEN both(singleton_or_empty(e.e), singleton_or_empty(e.f.body))
    ELSE IF IsDistinctOp(e) THEN singleton_or_empty(e.e)
    ELSE IF e.k = "ECond"
         THEN LET then_case == singleton_or_empty(e.then_branch)
                  else_case == singleton_or_empty(e.else_branch)
              IN IF definitely(then_case) /\ definitely(else_case) THEN Yes
                 ELSE IF possibly(then_case) \/ possibly(else_case) THEN MAYBE
                 ELSE No
    ELSE MAYBE

RECURSIVE is_singleton(_)
is_singleton(e) ==
    IF e.k = "ESingleton" THEN Yes
    ELSE IF e.k = "EMap" THEN is_singleton(e.e)
    ELSE IF IsDistinctOp(e) THEN is_singleton(e.e)
    ELSE MAYBE

RECURSIVE is_empty(_)
is_empty(e) ==
    IF e.k = "EEmptyList" THEN Yes
    ELSE IF e.k \in {"EMap", "EFilter"} THEN is_empty(e.e)
    ELSE IF IsDistinctOp(e) THEN is_empty(e.e)
    ELSE MAYBE

edistinct(e) ==
    IF definitely(singleton_or_empty(e)) THEN e
    ELSE EUnaryOp("distinct", e)

equal(e1, e2) == EEq(e1, e2)

RECURSIVE exists(_)
exists(e) ==
    IF definitely(is_empty(e)) THEN F
    ELSE IF definitely(is_singleton(e)) THEN T
    ELSE IF IsPlus(e) THEN EAny2(exists(e.e1), exists(e.e2))
    ELSE IF e.k = "ECond" THEN cond(e.cond, exists(e.then_branch), exists(e.else_branch))
    ELSE EExists(e)

RECURSIVE len_of(_)
len_of(e) ==
    IF definitely(singleton_or_empty(e)) THEN cond(exists(e), ONE, ZERO)
    ELSE IF e.k = "EMap" THEN len_of(e.e)
    ELSE IF e.k = "ECond" THEN cond(e.cond, len_of(e.then_branch), len_of(e.else_branch))
    ELSE ELen(e)

RECURSIVE subset_of(_, _)
RECURSIVE element_of(_, _)

element_of(x, xs) ==
    IF xs.k = "EFilter" THEN element_of(x, xs.e)
    ELSE IF xs.k = "EEmptyList" THEN No
    ELSE IF x.k = "EUnaryOp" /\ x.op = "the"
         THEN both(subset_of(x.e, xs), invert(is_empty(x.e)))
    ELSE MAYBE

subset_of(xs, ys) ==
    IF alpha_equivalent(xs, ys) THEN Yes
    ELSE IF xs.k = "EEmptyList" THEN Yes
    ELSE IF xs.k = "ECond"
         THEN LET s1 == subset_of(xs.then_branch, ys)
                  s2 == subset_of(xs.else_branch, ys)
              IN IF definitely(s1) /\ definitely(s2) THEN Yes
                 ELSE IF possibly(s1) /\ possibly(s2) THEN MAYBE
                 ELSE No
    ELSE IF xs.k = "ESingleton" THEN element_of(xs.e, ys)
    ELSE IF xs.k = "EFilter" THEN subset_of(xs.e, ys)
    ELSE IF xs.k = "EMap" /\ xs.f.arg = xs.f.body THEN subset_of(xs.e, ys)
    ELSE IF ys.k = "EMap" /\ ys.f.arg = ys.f.body THEN subset_of(xs, ys.e)
    ELSE MAYBE

RECURSIVE bag_contains(_, _)
bag_contains(bag, x) ==
    IF definitely(element_of(x, bag)) THEN T
    ELSE IF bag.k = "EFilter" THEN EAll2(bag_contains(bag.e, x), apply_to(bag.p, x))
    ELSE IF bag.k = "ESingleton" THEN equal(bag.e, x)
    ELSE EIn(x, bag)

nonnegative(x) ==
    LET RECURSIVE nn(_)
        nn(y) == IF y.k = "EUnaryOp" /\ y.op = "len" THEN Yes
                 ELSE IF IsPlus(y) THEN both(nn(y.e1), nn(y.e2))
                 ELSE MAYBE
    IN nn(x)

RECURSIVE ge(_, _)
ge(x, y) ==
    IF x.k = "ECond" THEN cond(x.cond, ge(x.then_branch, y), ge(x.else_branch, y))
    ELSE IF y.k = "ECond" THEN cond(y.cond, ge(x, y.then_branch), ge(x, y.else_branch))
    ELSE IF definitely(nonnegative(x)) /\ y = ZERO THEN T
    ELSE IF x = ZERO /\ y.k = "EUnaryOp" /\ y.op = "len" THEN ENot(exists(y.e))
    ELSE EGe(x, y)

bag_union(e1, e2) ==
    IF e1.k = "EEmptyList" THEN e2
    ELSE IF e2.k = "EEmptyList" THEN e1
    ELSE EBinOp(e1, "+", e2)

\* cozy.syntax_tools.compose: the lambda x -> f(g(x))
compose(f, g) == ELambda(g.arg, apply_to(f, g.body))

RECURSIVE emap(_, _)
emap(e, f) ==
    IF f.body = f.arg THEN e
    ELSE IF e.k = "EEmptyList" THEN EEmptyList
    ELSE IF e.k = "ESingleton" THEN ESingleton(apply_to(f, e.e))
    ELSE IF IsPlus(e) THEN bag_union(emap(e.e1, f), emap(e.e2, f))
    ELSE IF e.k = "EMap" THEN emap(e.e, compose(f, e.f))
    ELSE IF e.k = "ECond" THEN cond(e.cond, emap(e.then_branch, f), emap(e.else_branch, f))
    ELSE EMap(e, f)

RECURSIVE efilter(_, _)
efilter(e, f) ==
    IF f.body = T THEN e
    ELSE IF e.k = "EEmptyList" THEN EEmptyList
    ELSE IF IsPlus(e) THEN bag_union(efilter(e.e1, f), efilter(e.e2, f))
    ELSE IF e.k = "EMap" THEN efilter(e.e, compose(f, e.f))
    ELSE IF e.k = "ESingleton" THEN cond(simplify(apply_to(f, e.e)), e, EEmptyList)
    ELSE EFilter(e, f)

to_bag(e) == LET x == EVar("x", "Int") IN EMap(e, ELambda(x, x))

statevar(e) == IF e.k = "EStateVar" THEN Raise("AssertionError") ELSE EStateVar(e)


(***************************************************************************)
(* Model search: minimal_model.                                            *)
(***************************************************************************)
collection_depth == 4

None == [k |-> "None"]

minimal_model_body(formula) ==
    IF satisfiable(formula)
    THEN LET fvs == free_vars(formula)
             collections == IdsOfType(fvs, "Bag")
             total(env) == LET RECURSIVE sum(_)
                               sum(S) == IF S = {} THEN 0
                                         ELSE LET v == CHOOSE w \in S : TRUE
                                              IN BagSize(env[v]) + sum(S \ {v})
                           IN sum(collections)
             models(max_len) == {env \in EnvsFor(fvs) : total(env) < max_len /\ Eval(formula, env)}
             lens == {n \in 0..(collection_depth * Cardinality(collections)) : models(n) # {}}
         IN IF lens = {} THEN None
            ELSE [k |-> "Model", env |-> CHOOSE env \in models(SetMin(lens)) : TRUE]
    ELSE None

(***************************************************************************)
(* fork and the bag algebra that forks.                                    *)
(***************************************************************************)
\* f(a, b) once a and b have been evaluated, in this order, without raising
Seq2(a, b, Op(_, _)) == IF Raised(a) THEN a ELSE IF Raised(b) THEN b ELSE Op(a, b)

pair(n, d) == [k |-> "pair", n |-> n, d |-> d]

\* K(v) for the value v of an expression
Let(v, K(_)) == K(v)

\* K(v) for the value v of an expression, unless evaluating it raised
Try(v, K(_)) == IF Raised(v) THEN v ELSE K(v)

\* fork that asks the solver about the condition alone, without the assumptions
fork_unassuming(context, assumptions, c, then_branch, else_branch) ==
    IF c.k = "EBinOp" /\ c.op = "and"
    THEN Try(fork(context, assumptions, c.e2, then_branch, else_branch), LAMBDA inner :
             fork(context, assumptions, c.e1, inner, else_branch))
    ELSE IF c.k = "EBinOp" /\ c.op = "or"
    THEN Try(fork(context, assumptions, c.e2, then_branch, else_branch), LAMBDA inner :
             fork(context, assumptions, c.e1, then_branch, inner))
    ELSE IF c.k = "EUnaryOp" /\ c.op = "not"
    THEN fork(context, assumptions, c.e, else_branch, then_branch)
    ELSE IF c.k = "ECond"
    THEN Seq2(fork(context, assumptions, c.then_branch, then_branch, else_branch),
              fork(context, assumptions, c.else_branch, then_branch, else_branch),
              LAMBDA t, e : fork(context, assumptions, c.cond, t, e))
    ELSE IF valid(c) THEN then_branch
    ELSE IF valid(ENot(c)) THEN else_branch
    ELSE ForkOn(c)

\* fork that decides without the conjunct added last to the assumptions
fork_stale(context, assumptions, c, then_branch, else_branch) ==
    LET known == IF assumptions.k = "EBinOp" /\ assumptions.op = "and"
                 THEN assumptions.e1 ELSE assumptions
    IN IF valid(EImplies(known, c)) THEN then_branch
       ELSE IF valid(EImplies(known, ENot(c))) THEN else_branch
       ELSE ForkOn(c)

\* fork that takes the then-branch as soon as the condition can hold
fork_hasty(context, assumptions, c, then_branch, else_branch) ==
    IF satisfiable(EAll2(assumptions, c)) THEN then_branch ELSE else_branch

fork_body(context, assumptions, c, then_branch, else_branch) ==
    IF c.k = "EBinOp" /\ c.op = "and"
    THEN LET inner == fork(context, assumptions, c.e2, then_branch, else_branch)
         IN IF Raised(inner) THEN inner
            ELSE fork(context, assumptions, c.e1, inner, else_branch)
    ELSE IF c.k = "EBinOp" /\ c.op = "or"
    THEN LET inner == fork(context, assumptions, c.e2, then_branch, else_branch)
         IN IF Raised(inner) THEN inner
            ELSE fork(context, assumptions, c.e1, then_branch, inner)
    ELSE IF c.k = "EUnaryOp" /\ c.op = "not"
    THEN fork(context, assumptions, c.e, else_branch, then_branch)
    ELSE IF c.k = "ECond"
    THEN LET t == fork(context, assumptions, c.then_branch, then_branch, else_branch)
             e == fork(context, assumptions, c.else_branch, then_branch, else_branch)
         IN IF Raised(t) THEN t
            ELSE IF Raised(e) THEN e
            ELSE fork(context, assumptions, c.cond, t, e)
    ELSE IF valid(EImplies(assumptions, c)) THEN then_branch
    ELSE IF valid(EImplies(assumptions, ENot(c))) THEN else_branch
    ELSE ForkOn(c)

\* a call fork(context, assumptions, c, <t>, <e>): the arguments are evaluated first
ForkArgs(context, assumptions, c, t, e) ==
    IF Raised(t) THEN t
    ELSE IF Raised(e) THEN e
    ELSE fork(context, assumptions, c, t, e)

\* flatmap that builds the flat-map node without looking at its operands
flatmap_plain(context, assumptions, e, f) == EFlatMap(e, f)

flatmap_body(context, assumptions, e, f) ==
    IF f.body.k = "ESingleton" /\ f.body.e = f.arg THEN e
    ELSE IF e.k = "EEmptyList" \/ f.body.k = "EEmptyList" THEN EEmptyList
    ELSE IF e.k = "ESingleton"
    THEN LET res == simplify(apply_to(f, e.e))
         IN IF res.k = "ECond"
            THEN fork(context, assumptions, res.cond, res.then_branch, res.else_branch)
            ELSE res
    ELSE IF IsPlus(e)
    THEN Seq2(flatmap(context, assumptions, e.e1, f),
              flatmap(context, assumptions, e.e2, f), bag_union)
    ELSE IF e.k = "ECond"
    THEN ForkArgs(context, assumptions, e.cond,
                  flatmap(context, assumptions, e.then_branch, f),
                  flatmap(context, assumptions, e.else_branch, f))
    ELSE EFlatMap(e, f)

bag_intersection_body(context, assumptions, e1, e2) ==
    IF e1.k = "EEmptyList" THEN e1
    ELSE IF e2.k = "EEmptyList" THEN e2
    ELSE IF e1.k = "ECond"
    THEN ForkArgs(context, assumptions, e1.cond,
                  bag_intersection(context, assumptions, e1.then_branch, e2),
                  bag_intersection(context, assumptions, e1.else_branch, e2))
    ELSE IF e2.k = "ECond"
    THEN ForkArgs(context, assumptions, e2.cond,
                  bag_intersection(context, assumptions, e1, e2.then_branch),
                  bag_intersection(context, assumptions, e1, e2.else_branch))
    ELSE IF e1.k = "ESingleton" /\ e2.k = "ESingleton"
    THEN fork(context, assumptions, equal(e1.e, e2.e), e1, EEmptyList)
    ELSE EIntersect(e1, e2)

\* bag_subtract that builds the difference without looking at its operands
bag_subtract_plain(context, assumptions, e1, e2) == EBinOp(e1, "-", e2)

bag_subtract_body(context, assumptions, e1, e2) ==
    IF e1.k = "EEmptyList" THEN e1
    ELSE IF e2.k = "EEmptyList" THEN e1
    ELSE IF alpha_equivalent(e1, e2) THEN EEmptyList
    ELSE IF e2.k = "ECond"
    THEN ForkArgs(context, assumptions, e2.cond,
                  bag_subtract(context, assumptions, e1, e2.then_branch),
                  bag_subtract(context, assumptions, e1, e2.else_branch))
    ELSE IF e1.k = "ECond"
    THEN ForkArgs(context, assumptions, e1.cond,
                  bag_subtract(context, assumptions, e1.then_branch, e2),
                  bag_subtract(context, assumptions, e1.else_branch, e2))
    ELSE IF IsPlus(e2)
    THEN LET inner == bag_subtract(context, assumptions, e1, e2.e1)
         IN IF Raised(inner) THEN inner
            ELSE bag_subtract(context, assumptions, inner, e2.e2)
    ELSE IF IsMinus(e1) /\ alpha_equivalent(e1.e1, e2) THEN EEmptyList
    ELSE IF IsMinus(e2) /\ alpha_equivalent(e2.e1, e1) /\ e2.e2.k = "ESingleton"
    THEN fork(context, assumptions, bag_contains(e1, e2.e2.e), e2.e2, EEmptyList)
    ELSE IF e1.k = "ESingleton" /\ e2.k = "ESingleton"
    THEN fork(context, assumptions, equal(e1.e, e2.e), EEmptyList, e1)
    ELSE EBinOp(e1, "-", e2)


(***************************************************************************)
(* Deltas: bag_delta (with its dbg wrapper), checked_bag_delta,            *)
(* became_bool, better_mutate, resolve_forks.  The closures handed to      *)
(* resolve_forks are records naming the call they make; RunJob makes it.   *)
(***************************************************************************)
SizeLimit == 100

to_heap(e) ==
    IF e.k = "EArgMin" THEN EMakeMinHeap(e.e, e.f)
    ELSE IF e.k = "EArgMax" THEN EMakeMaxHeap(e.e, e.f)
    ELSE Raise("ValueError")

ContextIds(context) == {context[i].id : i \in 1..Len(context)}

\* a variable named like no other variable in sight
FreshFor(e, context, s, assumptions) ==
    fresh_var("Int", AllIds(e) \cup StmIds(s) \cup AllIds(assumptions) \cup ContextIds(context))

UnderBinder(context, arg) == Append(context, arg)

DeltaJob(i, e, context, s) == [fn |-> "checked_bag_delta", i |-> i, e |-> e, context |-> context, s |-> s]
MutateJob(e, context, op) == [fn |-> "better_mutate", e |-> e, context |-> context, s |-> op]

dbg(res) ==
    IF Raised(res) THEN res
    ELSE IF ExpSize(res.d) > SizeLimit THEN Raise("ValueError")
    ELSE res


became_true(e, context, s, assumptions) == became_bool(e, context, s, TRUE, assumptions)

became_false(e, context, s, assumptions) == became_bool(e, context, s, FALSE, assumptions)

checked_bag_delta(e, context, s, assumptions) == bag_delta(e, context, s, assumptions)

RunJob(func, a) ==
    IF func.fn = "checked_bag_delta"
    THEN LET r == checked_bag_delta(func.e, func.context, func.s, a)
         IN IF Raised(r) THEN r ELSE IF func.i = 0 THEN r.n ELSE r.d
    ELSE better_mutate(func.e, func.context, func.s, a)

\* resolve_forks without its exception handler
resolve_forks_unresolved(assumptions, func) == RunJob(func, assumptions)

resolve_forks_body(assumptions, func) ==
    LET r == RunJob(func, assumptions)
    IN IF r.k = "ForkOn"
       THEN LET branch_cond == r.cond
                yes == resolve_forks(EAll2(assumptions, branch_cond), func)
                no == resolve_forks(EAll2(assumptions, ENot(branch_cond)), func)
            IN IF Raised(yes) THEN yes
               ELSE IF Raised(no) THEN no
               ELSE cond(branch_cond, yes, no)
       ELSE r

\* the flat-map case of bag_delta; e is an EFlatMap
flatmap_delta_body(e, context, s, assumptions) ==
    Let(FreshFor(e, context, s, assumptions), LAMBDA arg_ :
    Let(apply_to(e.f, arg_), LAMBDA func_body :
    Let(UnderBinder(context, arg_), LAMBDA inner_context :
    Try(checked_bag_delta(e.e, context, s, assumptions), LAMBDA dxs :
    Try(resolve_forks(assumptions, DeltaJob(0, func_body, inner_context, s)), LAMBDA added_ys :
    Try(resolve_forks(assumptions, DeltaJob(1, func_body, inner_context, s)), LAMBDA removed_ys :
    Try(mutate(func_body, s), LAMBDA new_body :
    Try(bag_subtract(context, assumptions, e.e, dxs.d), LAMBDA post_remove :
    Try(Seq2(flatmap(context, assumptions, dxs.d, e.f),
             flatmap(context, assumptions, post_remove, ELambda(arg_, removed_ys)),
             bag_union), LAMBDA removed0 :
    Try(Seq2(flatmap(context, assumptions, dxs.n, ELambda(arg_, new_body)),
             flatmap(context, assumptions, post_remove, ELambda(arg_, added_ys)),
             bag_union), LAMBDA added0 :
    Let(alpha_equivalent(added0, removed0), LAMBDA same :
    Let(IF same THEN EEmptyList ELSE added0, LAMBDA added :
    Let(IF same THEN EEmptyList ELSE removed0, LAMBDA removed :
    Try(bag_intersection(context, assumptions, removed, added), LAMBDA i :
    Seq2(bag_subtract(context, assumptions, added, i),
         bag_subtract(context, assumptions, removed, i), pair)))))))))))))))

\* bag_delta as written, before its decorator checks the result
bag_delta_f(e, context, s, assumptions) ==
    IF e.k = "EStateVar" THEN checked_bag_delta(e.e, context, s, assumptions)
    ELSE IF e.k = "EMap"
    THEN flatmap_delta(EFlatMap(e.e, ELambda(e.f.arg, ESingleton(e.f.body))), context, s, assumptions)
    ELSE IF e.k = "EFilter"
    THEN flatmap_delta(EFlatMap(e.e, ELambda(e.p.arg, cond(e.p.body, ESingleton(e.p.arg), EEmptyList))),
                       context, s, assumptions)
    ELSE IF e.k = "EFlatMap" THEN flatmap_delta(e, context, s, assumptions)
    ELSE IF IsPlus(e)
    THEN Seq2(checked_bag_delta(e.e1, context, s, assumptions),
              checked_bag_delta(e.e2, context, s, assumptions),
              LAMBDA x, y : pair(bag_union(x.n, y.n), bag_union(x.d, y.d)))
    ELSE IF IsMinus(e)
    THEN Seq2(checked_bag_delta(e.e1, context, s, assumptions),
              checked_bag_delta(e.e2, context, s, assumptions),
              LAMBDA x, y : pair(bag_union(x.n, y.d), bag_union(x.d, y.n)))
    ELSE IF IsDistinctOp(e)
    THEN LET r == checked_bag_delta(e.e, context, s, assumptions)
         IN IF Raised(r) THEN r
            ELSE LET n == edistinct(r.n)
                     d == edistinct(r.d)
                     x == FreshFor(e, context, s, assumptions)
                 IN IF definitely(are_unique(e.e)) THEN pair(n, d)
                    ELSE pair(n, efilter(edistinct(d), ELambda(x, equal(ECountIn(x, e.e), ONE))))
    ELSE IF e.k = "ESingleton"
    THEN LET sv == statevar(e.e)
             new_e == IF Raised(sv) THEN sv ELSE better_mutate(sv, context, s, assumptions)
         IN IF Raised(new_e) THEN new_e
            ELSE fork(context, assumptions, EEq(e.e, new_e),
                      pair(EEmptyList, EEmptyList), pair(ESingleton(new_e), e))
    ELSE IF e.k = "EEmptyList" THEN pair(EEmptyList, EEmptyList)
    ELSE IF e.k = "ECond"
    THEN LET new_cond == mutate(e.cond, s)
         IN IF Raised(new_cond) THEN new_cond
            ELSE IF alpha_equivalent(new_cond, e.cond)
            THEN Seq2(checked_bag_delta(e.then_branch, context, s, assumptions),
                      checked_bag_delta(e.else_branch, context, s, assumptions),
                      LAMBDA x, y : pair(cond(e.cond, x.n, y.n), cond(e.cond, x.d, y.d)))
            ELSE LET bf == became_false(e.cond, context, s, assumptions)
                     bt == became_true(e.cond, context, s, assumptions)
                     et == bag_subtract(context, assumptions, e.else_branch, e.then_branch)
                     te == bag_subtract(context, assumptions, e.then_branch, e.else_branch)
                 IN IF Raised(bf) THEN bf
                    ELSE IF Raised(et) THEN et
                    ELSE IF Raised(bt) THEN bt
                    ELSE IF Raised(te) THEN te
                    ELSE pair(cond(e.cond, cond(bf, et, EEmptyList), cond(bt, te, EEmptyList)),
                              cond(e.cond, cond(bf, te, EEmptyList), cond(bt, et, EEmptyList)))
    ELSE IF e.k # "EVar" THEN Raise("NotImplementedError")
    ELSE LET new_e == mutate(e, s)
         IN IF Raised(new_e) THEN new_e
            ELSE IF IsPlus(new_e) /\ IsMinus(new_e.e1) /\ alpha_equivalent(new_e.e1.e1, e)
            THEN pair(new_e.e2, new_e.e1.e2)
            ELSE IF IsPlus(new_e) /\ alpha_equivalent(new_e.e1, e)
            THEN pair(new_e.e2, EEmptyList)
            ELSE Seq2(bag_subtract(context, assumptions, new_e, e),
                      bag_subtract(context, assumptions, e, new_e), pair)

bag_delta_body(e, context, s, assumptions) == dbg(bag_delta_f(e, context, s, assumptions))


became_bool_body(e, context, s, val, assumptions) ==
    LET m == mutate(e, s)
        bb1 == became_bool(e.e1, context, s, val, assumptions)
        bb2 == became_bool(e.e2, context, s, val, assumptions)
    IN IF Raised(m) THEN m
       ELSE IF alpha_equivalent(e, m) THEN F
       ELSE IF e.k = "EUnaryOp" /\ e.op = "not"
       THEN became_bool(e.e, context, s, ~val, assumptions)
       ELSE IF e.k = "EUnaryOp" /\ e.op = "exists"
       THEN LET r == bag_delta(e.e, context, s, assumptions)
            IN IF Raised(r) THEN r
               ELSE IF val THEN exists(r.n)
               ELSE ge(len_of(r.d), ESum2(len_of(r.n), len_of(e.e)))
       ELSE IF e.k = "EBinOp" /\ e.op = "and"
       THEN IF val THEN Raise("NotImplementedError")
            ELSE Seq2(bb1, bb2, EAny2)
       ELSE IF e.k = "EBinOp" /\ e.op = "or"
       THEN IF val THEN Seq2(bb1, bb2, EAny2)
            ELSE IF Raised(bb1) THEN bb1
            ELSE IF Raised(bb2) THEN bb2
            ELSE cond(e.e1, cond(e.e2, EAll2(bb1, bb2), bb1), bb2)
       ELSE Raise("NotImplementedError")

\* better_mutate of each element of a tuple of call arguments, left to right
RECURSIVE MutateArgs(_, _, _, _)
MutateArgs(args, context, op, assumptions) ==
    IF args = <<>> THEN <<>>
    ELSE LET sv == statevar(Head(args))
             x == IF Raised(sv) THEN sv ELSE better_mutate(sv, context, op, assumptions)
         IN IF Raised(x) THEN x
            ELSE LET rest == MutateArgs(Tail(args), context, op, assumptions)
                 IN IF Raised(rest) THEN rest ELSE <<x>> \o rest

\* better_mutate(statevar(x), context, op, assumptions)
MutateSub(x, context, op, assumptions) ==
    LET sv == statevar(x)
    IN IF Raised(sv) THEN sv ELSE better_mutate(sv, context, op, assumptions)

\* the EArgMin / EArgMax case falling back on recomputation (line 250)
argmin_recomputed(esv, context, op, assumptions) == mutate(esv.e, op)

\* the cached value returned as it stands
argmin_guessed(esv, context, op, assumptions) == esv

\* the EArgMin / EArgMax case of better_mutate; esv = EStateVar(e)
argmin_mutate(esv, context, op, assumptions) ==
    LET e == esv.e
        mf == mutate(e.f, op)
    IN IF Raised(mf) THEN mf
       ELSE IF ~alpha_equivalent(e.f, mf) THEN NotEfficient(e)
       ELSE LET r == checked_bag_delta(EStateVar(e.e), context, op, assumptions)
            IN IF Raised(r) THEN r ELSE
            LET to_add == r.n
                to_del == r.d
                h == EStateVar(to_heap(e))
                second_min == EHeapPeek2(h, EStateVar(ELen(e.e)))
                kept == to_del.k = "EEmptyList" \/ valid(EImplies(assumptions, EEmpty(to_del)))
                one == valid(EImplies(assumptions, EEq(ELen(to_del), ONE)))
                model == minimal_model(EAll2(assumptions, ENot(ELe(ELen(to_del), ONE))))
                min_after_del == IF kept THEN esv
                                 ELSE ECond(EEq(EUnaryOp("the", to_del), esv), second_min, esv)
            IN IF ~kept /\ ~one
               THEN IF model = None THEN Raise("TypeError") ELSE NotEfficient(e)
               ELSE IF definitely(is_empty(to_add)) THEN min_after_del
               ELSE [k |-> e.k, e |-> bag_union(ESingleton(min_after_del), to_add), f |-> e.f]

better_mutate_body(esv, context, op, assumptions) ==
    IF esv.k # "EStateVar" THEN Raise("TypeError") ELSE
    LET e == esv.e
        m == mutate(e, op)
    IN IF Raised(m) THEN m
       ELSE IF alpha_equivalent(e, m) THEN esv
       ELSE IF TypeOf(e) = "Bag"
       THEN LET r == checked_bag_delta(e, context, op, assumptions)
            IN IF Raised(r) THEN r
               ELSE LET rest == bag_subtract(context, assumptions, e, r.d)
                    IN IF Raised(rest) THEN rest ELSE bag_union(rest, r.n)
       ELSE IF e.k = "EUnaryOp" /\ e.op = "exists"
       THEN LET r == checked_bag_delta(e.e, context, op, assumptions)
            IN IF Raised(r) THEN r
               ELSE EGt(EBinOp(EStateVar(len_of(e.e)), "+", len_of(r.n)), len_of(r.d))
       ELSE IF e.k = "EUnaryOp" /\ e.op = "not"
       THEN LET new_val == MutateSub(e.e, context, op, assumptions)
            IN IF Raised(new_val) THEN new_val ELSE ENot(new_val)
       ELSE IF e.k = "ESingleton"
       THEN LET x == MutateSub(e.e, context, op, T)
            IN IF Raised(x) THEN x ELSE ESingleton(x)
       ELSE IF e.k = "EBinOp"
       THEN Seq2(MutateSub(e.e1, context, op, assumptions),
                 MutateSub(e.e2, context, op, assumptions),
                 LAMBDA x, y : EBinOp(x, e.op, y))
       ELSE IF e.k = "ECall"
       THEN LET args == MutateArgs(e.args, context, op, assumptions)
            IN IF Raised(args) THEN args
               ELSE [k |-> "ECall", func |-> e.func, args |-> args, type |-> e.type]
       ELSE IF e.k = "ECond"
       THEN LET then_branch == MutateSub(e.then_branch, context, op, assumptions)
                else_branch == MutateSub(e.else_branch, context, op, assumptions)
                bf == became_false(e.cond, context, op, assumptions)
                bt == became_true(e.cond, context, op, assumptions)
            IN IF Raised(then_branch) THEN then_branch
               ELSE IF Raised(else_branch) THEN else_branch
               ELSE IF Raised(bf) THEN bf
               ELSE IF Raised(bt) THEN bt
               ELSE cond(e.cond, cond(bf, else_branch, then_branch),
                                 cond(bt, then_branch, else_branch))
       ELSE IF e.k \in {"EArgMin", "EArgMax"} THEN argmin_mutate(esv, context, op, assumptions)
       ELSE Raise("NotImplementedError")

real_better_mutate(e, context, op, assumptions) ==
    resolve_forks(assumptions, MutateJob(e, context, op))


(***************************************************************************)
(* sketch_update: code that brings an lvalue from old_value to new_value,  *)
(* and the queries (subgoals) that code calls.                             *)
(***************************************************************************)
RECURSIVE EAll(_)
EAll(es) == IF es = <<>> THEN T ELSE EAll2(Head(es), EAll(Tail(es)))


(***************************************************************************)
(* optimize: rewriting an expression under a path condition.  The path     *)
(* condition pc of the source is called pcond here and is held in          *)
(* assumptions; a context is the sequence of the binders entered.          *)
(***************************************************************************)
\* cozy.target_syntax.EIsSubset: e1 is a sub-bag of e2
EIsSubset(e1, e2) == EEmpty(EBinOp(e1, "-", e2))

\* the first exception among the optimized children, or None
RECURSIVE FirstRaised(_)
FirstRaised(cs) ==
    IF cs = <<>> THEN None
    ELSE IF Raised(Head(cs)) THEN Head(cs)
    ELSE FirstRaised(Tail(cs))

\* type(e)(*new_children): e with its children replaced
Rebuilt(e, new_children) ==
    CASE IsLeaf(e) -> e
      [] e.k = "EFilter" -> EFilter(new_children[1], new_children[2])
      [] HasEF(e) -> [e EXCEPT !.e = new_children[1], !.f = new_children[2]]
      [] e.k = "ECond" -> ECond(new_children[1], new_children[2], new_children[3])
      [] HasE(e) -> [e EXCEPT !.e = new_children[1]]
      [] HasE1E2(e) -> [e EXCEPT !.e1 = new_children[1], !.e2 = new_children[2]]

RECURSIVE optimize(_, _, _)
optimize_lambda(f, bag, context, pcond) ==
    LET body == optimize(f.body, Append(context, f.arg), EAll(<<pcond, EIn(f.arg, bag)>>))
    IN IF Raised(body) THEN body ELSE ELambda(f.arg, body)

optimize(e, context, pcond) ==
    IF e.k = "EStateVar" THEN e
    ELSE IF TypeOf(e) = "Bool" /\ valid(EImplies(pcond, e)) THEN T
    ELSE IF TypeOf(e) = "Bool" /\ valid(EImplies(pcond, ENot(e))) THEN F
    ELSE IF is_collection(e) /\ valid(EImplies(pcond, EEmpty(e))) THEN EEmptyList
    ELSE
    LET \* (1) recurse
        new_children ==
            CASE e.k = "EFilter" ->
                   <<optimize(e.e, context, pcond), optimize_lambda(e.p, e.e, context, pcond)>>
              [] e.k \in {"EMap", "EFlatMap", "EArgMin", "EArgMax"} ->
                   <<optimize(e.e, context, pcond), optimize_lambda(e.f, e.e, context, pcond)>>
              [] e.k = "ECond" ->
                   <<optimize(e.cond, context, pcond),
                     optimize(e.then_branch, context, EAll(<<pcond, e.cond>>)),
                     optimize(e.then_branch, context, EAll(<<pcond, ENot(e.cond)>>))>>
              [] e.k = "EBinOp" /\ e.op = "and" ->
                   <<optimize(e.e1, context, pcond),
                     optimize(e.e2, context, EAll(<<pcond, e.e1>>))>>
              [] e.k = "EBinOp" /\ e.op = "or" ->
                   <<optimize(e.e1, context, pcond),
                     optimize(e.e2, context, EAll(<<pcond, ENot(e.e1)>>))>>
              [] IsLeaf(e) -> <<>>
              [] HasE(e) -> <<optimize(e.e, context, pcond)>>
              [] HasE1E2(e) ->
                   <<optimize(e.e1, context, pcond), optimize(e.e2, context, pcond)>>
              [] OTHER -> <<Raise("AssertionError")>>
        \* (2) optimize
        bag == new_children[1]
        func == new_children[2]
        pred == new_children[2]
        distributed(node(_, _)) ==
            optimize(EBinOp(node(bag.e1, func), bag.op, node(bag.e2, func)), context, pcond)
    IN IF FirstRaised(new_children) # None THEN FirstRaised(new_children)
       ELSE IF e.k = "EMap" /\ func.arg = func.body THEN bag
       ELSE IF e.k = "EMap" /\ bag.k = "ESingleton"
            THEN LET applied == optimize(apply_to(func, bag.e), context, pcond)
                 IN IF Raised(applied) THEN applied ELSE ESingleton(applied)
       ELSE IF e.k = "EMap" /\ IsPlus(bag) THEN distributed(EMap)
       ELSE IF e.k = "EMap" /\ bag.k = "EBinOp" /\ bag.op = "-"
               /\ valid(EIsSubset(bag.e2, bag.e1)) THEN distributed(EMap)
       ELSE IF e.k = "EFilter" /\ e.p.body = T THEN bag
       ELSE IF e.k = "EFilter" /\ e.p.body = F THEN EEmptyList
       ELSE IF e.k = "EFilter" /\ bag.k = "EBinOp" /\ bag.op \in {"+", "-"}
            THEN distributed(EFilter)
       ELSE IF e.k = "EFilter" /\ bag.k = "ESingleton"
            THEN LET applied == optimize(apply_to(pred, bag.e), context, pcond)
                 IN IF Raised(applied) THEN applied ELSE cond(applied, bag, EEmptyList)
       ELSE IF e.k = "EBinOp" /\ e.op = "and" THEN EAll(new_children)
       ELSE IF e.k = "EBinOp" /\ e.op = "or" THEN EAny2(new_children[1], new_children[2])
       ELSE IF e.k = "EGetField" /\ bag.k = "EMakeRecord"
            THEN IF FieldIndex(e.f) = 1 THEN bag.e1 ELSE bag.e2
       ELSE IF IsPlus(e) /\ (new_children[1].k = "EEmptyList" \/ new_children[1] = ZERO)
            THEN new_children[2]
       ELSE IF IsPlus(e) /\ (new_children[2].k = "EEmptyList" \/ new_children[2] = ZERO)
            THEN new_children[1]
       ELSE Rebuilt(e, new_children)

RECURSIVE strip_EStateVar(_)
strip_EStateVar(e) ==
    CASE e.k = "EStateVar" -> strip_EStateVar(e.e)
      [] IsLeaf(e) \/ e.k = "ECall" -> e
      [] HasE(e) -> [e EXCEPT !.e = strip_EStateVar(e.e)]
      [] HasE1E2(e) -> [e EXCEPT !.e1 = strip_EStateVar(e.e1), !.e2 = strip_EStateVar(e.e2)]
      [] e.k = "ECond" -> [e EXCEPT !.cond = strip_EStateVar(e.cond),
                                    !.then_branch = strip_EStateVar(e.then_branch),
                                    !.else_branch = strip_EStateVar(e.else_branch)]
      [] e.k = "ELambda" -> [e EXCEPT !.body = strip_EStateVar(e.body)]
      [] HasEF(e) -> [e EXCEPT !.e = strip_EStateVar(e.e), !.f = strip_EStateVar(e.f)]
      [] e.k = "EFilter" -> [e EXCEPT !.e = strip_EStateVar(e.e), !.p = strip_EStateVar(e.p)]
      [] e.k = "ECountIn" -> [e EXCEPT !.e = strip_EStateVar(e.e), !.bag = strip_EStateVar(e.bag)]
      [] e.k = "EHeapPeek2" -> [e EXCEPT !.e = strip_EStateVar(e.e), !.n = strip_EStateVar(e.n)]
      [] e.k = "EMapGet" -> [e EXCEPT !.map = strip_EStateVar(e.map), !.key = strip_EStateVar(e.key)]
      [] e.k = "EMakeMap2" -> [e EXCEPT !.e = strip_EStateVar(e.e), !.value = strip_EStateVar(e.value)]

construct_value(ty) ==
    IF ty = "Int" THEN ENum(DefaultValue)
    ELSE IF ty = "Bool" THEN F
    ELSE EEmptyList

RECURSIVE value_at(_, _)
value_at(m, key) ==
    IF m.k = "EMakeMap2"
    THEN ECond(EIn(key, m.e), apply_to(m.value, key), construct_value("Int"))
    ELSE IF m.k = "ECond"
    THEN ECond(m.cond, value_at(m.then_branch, key), value_at(m.else_branch, key))
    ELSE EMapGet(m, key)

QueryNames == <<"query1", "query2", "query3", "query4", "query5", "query6">>

\* fresh_name("query") once n names have been handed out
fresh_name(n) == QueryNames[n + 1]

RECURSIVE SetToSeq(_)
SetToSeq(S) == IF S = {} THEN <<>>
               ELSE LET x == CHOOSE y \in S : TRUE IN <<x>> \o SetToSeq(S \ {x})

Query(name, args, assumptions, ret) ==
    [k |-> "Query", name |-> name, args |-> args, assumptions |-> assumptions, ret |-> ret]

ECall(func, args, ty) == [k |-> "ECall", func |-> func, args |-> args, type |-> ty]

\* make_subgoal that leaves the caller's assumptions out of the query
make_subgoal_unassuming(e, a, ctx, assumptions, n) ==
    LET query_name == fresh_name(n)
        fvs == free_vars(e) \cup UNION {free_vars(a[i]) : i \in 1..Len(a)}
        query_vars == SetToSeq(fvs \ ctx)
    IN [query |-> Query(query_name, query_vars, a, e),
        call |-> ECall(query_name, query_vars, TypeOf(e))]

\* make_subgoal inside sketch_update: the query and the call that stands for e
make_subgoal(e, a, ctx, assumptions, n) ==
    LET query_name == fresh_name(n)
        all == assumptions \o a
        fvs == free_vars(e) \cup UNION {free_vars(all[i]) : i \in 1..Len(all)}
        query_vars == SetToSeq(fvs \ ctx)
    IN [query |-> Query(query_name, query_vars, all, e),
        call |-> ECall(query_name, query_vars, TypeOf(e))]

\* the bag update with the two queries taken for one another
bag_update_swapped(lval, v, to_add, to_del) ==
    seq2(SForEach(v, to_add, SCall(lval, "remove", <<v>>)),
         SForEach(v, to_del, SCall(lval, "add", <<v>>)))

\* the statement of the bag / set case: remove each deletion, add each addition
bag_update(lval, v, to_add, to_del) ==
    seq2(SForEach(v, to_del, SCall(lval, "remove", <<v>>)),
         SForEach(v, to_add, SCall(lval, "add", <<v>>)))

\* the enter / mod set that forgets the keys whose value changed
enter_set_only(old_value, new_value, key) ==
    EFilter(EMapKeys(new_value), ELambda(key, ENot(EIn(key, EMapKeys(old_value)))))

\* (2) of the map case: the keys of the new map that are new or whose value changed
enter_mod_set(old_value, new_value, key) ==
    EFilter(EMapKeys(new_value), ELambda(key,
        EAny2(ENot(EIn(key, EMapKeys(old_value))),
              ENot(EEq(value_at(old_value, key), value_at(new_value, key))))))

sketch_update_from_body(n, lval, old_value, new_value0, ctx, assumptions, invariants) ==
    IF valid(EImplies(EAll(assumptions \o invariants), EEq(old_value, new_value0)))
    THEN [stm |-> SNoOp, subgoals |-> <<>>]
    ELSE
    LET new_value == strip_EStateVar(new_value0)
        t == TypeOf(lval)
        omit == AllIds(lval) \cup AllIds(old_value) \cup AllIds(new_value)
                  \cup {v.id : v \in ctx}
                  \cup UNION {AllIds(assumptions[i]) : i \in 1..Len(assumptions)}
    IN IF t = "Bag"
       THEN LET to_add == make_subgoal(EBinOp(new_value, "-", old_value), <<>>, ctx, assumptions, n)
                to_del == make_subgoal(EBinOp(old_value, "-", new_value), <<>>, ctx, assumptions, n + 1)
                v == fresh_var("Int", omit)
            IN [stm |-> bag_update(lval, v, to_add.call, to_del.call),
                subgoals |-> <<to_add.query, to_del.query>>]
       ELSE IF t = "Map"
       THEN LET key == fresh_var("Int", omit)
                v == fresh_var("Int", omit \cup {key.id})
                old_keys == EMapKeys(old_value)
                new_keys == EMapKeys(new_value)
                deleted_keys == EBinOp(old_keys, "-", new_keys)
                del == make_subgoal(deleted_keys, <<>>, ctx, assumptions, n)
                s1 == SForEach(key, del.call, SMapDel(lval, key))
                new_or_modified == enter_mod_set(old_value, new_value, key)
                update_value ==
                    sketch_update_from(n + 1, v, value_at(old_value, key), value_at(new_value, key), ctx,
                        assumptions \o <<EIn(key, new_or_modified), EEq(v, value_at(old_value, key))>>,
                        invariants)
                upd == make_subgoal(new_or_modified, <<>>, ctx, assumptions,
                                    n + 1 + Len(update_value.subgoals))
                s2 == SForEach(key, upd.call, SMapUpdate(lval, key, v, update_value.stm))
            IN [stm |-> SSeq(s1, s2),
                subgoals |-> <<del.query>> \o update_value.subgoals \o <<upd.query>>]
       ELSE LET q == make_subgoal(new_value, <<>>, ctx, assumptions, n)
            IN [stm |-> SAssign(lval, q.call), subgoals |-> <<q.query>>]

Call(fn, a) ==
    CASE fn = "mutate" -> mutate_body(a[1], a[2])
      [] fn = "fork" -> fork_body(a[1], a[2], a[3], a[4], a[5])
      [] fn = "flatmap" -> flatmap_body(a[1], a[2], a[3], a[4])
      [] fn = "bag_intersection" -> bag_intersection_body(a[1], a[2], a[3], a[4])
      [] fn = "bag_subtract" -> bag_subtract_body(a[1], a[2], a[3], a[4])
      [] fn = "bag_delta" -> bag_delta_body(a[1], a[2], a[3], a[4])
      [] fn = "flatmap_delta" -> flatmap_delta_body(a[1], a[2], a[3], a[4])
      [] fn = "better_mutate" -> better_mutate_body(a[1], a[2], a[3], a[4])
      [] fn = "became_bool" -> became_bool_body(a[1], a[2], a[3], a[4], a[5])
      [] fn = "resolve_forks" -> resolve_forks_body(a[1], a[2])
      [] fn = "alpha_equivalent" -> alpha_equivalent_body(a[1], a[2])
      [] fn = "valid" -> valid_body(a[1])
      [] fn = "cond" -> cond_body(a[1], a[2], a[3])
      [] fn = "simplify" -> simplify_body(a[1])
      [] fn = "minimal_model" -> minimal_model_body(a[1])
      [] fn = "sketch_update_from" ->
           sketch_update_from_body(a[1], a[2], a[3], a[4], a[5], a[6], a[7])

sketch_update(lval, old_value, new_value, ctx, assumptions, invariants) ==
    sketch_update_from(0, lval, old_value, new_value, ctx, assumptions, invariants)

\* mutate_in_place, for an lvalue whose type has no extension handler: the
\* statement, and the queries appended to subgoals_out (empty at the call)
_mutate_in_place(lval, e, op, abstract_state, assumptions, invariants) ==
    LET new_e == mutate(e, op)
    IN IF Raised(new_e) THEN new_e
       ELSE sketch_update(lval, e, new_e, abstract_state, assumptions, invariants)

mutate_in_place(lval, e, op, abstract_state, assumptions, invariants) ==
    _mutate_in_place(lval, e, op, abstract_state, assumptions, invariants)

\* a call of a query reads as the query's body: the arguments of the call are the
\* query's own parameters
InlineCall(x, subgoals) ==
    IF x.k = "ECall"
    THEN LET i == CHOOSE j \in 1..Len(subgoals) : subgoals[j].name = x.func
         IN subgoals[i].ret
    ELSE x

RECURSIVE InlineCalls(_, _)
InlineCalls(s, subgoals) ==
    CASE s.k = "SAssign" -> [s EXCEPT !.rhs = InlineCall(s.rhs, subgoals)]
      [] s.k = "SSeq" -> SSeq(InlineCalls(s.s1, subgoals), InlineCalls(s.s2, subgoals))
      [] s.k = "SForEach" -> [s EXCEPT !.iter = InlineCall(s.iter, subgoals),
                                       !.body = InlineCalls(s.body, subgoals)]
      [] s.k = "SMapUpdate" -> [s EXCEPT !.change = InlineCalls(s.change, subgoals)]
      [] OTHER -> s


(***************************************************************************)
(* The inputs: the abstract state is one bag of integers xs, the           *)
(* operation's arguments are the integers arg and arg2 (the context that   *)
(* test() builds, lines 1647-1653).                                        *)
(***************************************************************************)
xs == EVar("xs", "Bag")
arg == EVar("arg", "Int")
arg2 == EVar("arg2", "Int")
x == EVar("x", "Int")
y == EVar("y", "Int")

identity == ELambda(x, x)
nonzero == ELambda(x, ENe(x, ZERO))
filtered == EFilter(xs, nonzero)
min_xs == EArgMin(xs, identity)
guarded == ECond(EExists(xs), xs, EEmptyList)

Collections ==
    {xs, filtered, EMap(xs, ELambda(x, arg2)), EBinOp(xs, "+", ESingleton(arg2)),
     EBinOp(xs, "-", ESingleton(arg2)), EBinOp(ESingleton(arg2), "-", xs),
     EUnaryOp("distinct", xs), ESingleton(arg), ESingleton(min_xs), EEmptyList,
     guarded, ECond(EEq(arg2, ZERO), xs, ESingleton(arg2)),
     EFlatMap(xs, ELambda(x, ECond(EEq(x, arg2), ESingleton(x), EEmptyList)))}

Scalars ==
    {min_xs, EArgMax(xs, identity), EArgMin(filtered, identity), EExists(xs),
     ENot(EExists(filtered)), ELen(xs), EIn(arg2, xs),
     EBinOp(EExists(xs), "and", EEq(arg, arg2)),
     ECond(EExists(xs), min_xs, arg2)}

Exprs == Collections \cup Scalars

add_arg == SCall(xs, "add", <<arg>>)
remove_arg == SCall(xs, "remove", <<arg>>)

Stms ==
    {SNoOp, add_arg, remove_arg, SSeq(remove_arg, SCall(xs, "add", <<arg2>>)),
     SCall(xs, "add", <<ONE>>),
     SIf(EEq(arg, arg2), add_arg, SNoOp),
     SAssign(xs, ESingleton(arg)),
     SCall(xs, "remove_all", <<filtered>>),
     SSeq(SDecl("y", min_xs), SSeq(remove_arg, SCall(xs, "add_all", <<ESingleton(y)>>))),
     SSeq(SSeq(add_arg, SIf(EIn(arg2, xs), SCall(xs, "remove", <<arg2>>), add_arg)), remove_arg)}

arg_is_min == EAll2(EEq(arg, min_xs), EGe(ELen(xs), ENum(2)))

Assumptions == {T, ENe(arg, ZERO), EIn(arg, xs), arg_is_min}

\* the environments of the root context
RootEnvs == EnvsFor({xs, arg, arg2})

(***************************************************************************)
(* The state machine: one call of one entry point on inputs drawn at the   *)
(* start; res is what the call returned or raised.  _SOLVERS is the        *)
(* module's solver cache, made the number of solvers constructed so far    *)
(* and requests the contexts solver_for has been asked for, in order.  The *)
(* cache is written by solver_for alone; the entry points that reach it    *)
(* get the oracle from it whatever it holds, and their actions do not      *)
(* follow it.                                                              *)
(***************************************************************************)
VARIABLES e, op, assumptions, lval, old_value, new_value, job, pc, res,
          _SOLVERS, made, requests

vars == <<e, op, assumptions, lval, old_value, new_value, job, pc, res,
          _SOLVERS, made, requests>>

cache == <<_SOLVERS, made, requests>>

\* the module as loaded: no solver yet
NoSolvers ==
    /\ _SOLVERS = <<>>
    /\ made = 0
    /\ requests = <<>>

Init ==
    /\ e \in Exprs
    /\ op \in Stms
    /\ assumptions \in Assumptions
    /\ lval = None
    /\ old_value = None
    /\ new_value = None
    /\ job = None
    /\ pc = "start"
    /\ res = None
    /\ NoSolvers

inputs == <<e, op, assumptions, lval, old_value, new_value>>

Mutate ==
    /\ pc = "start"
    /\ pc' = "mutate"
    /\ res' = mutate(e, op)
    /\ UNCHANGED <<inputs, job, cache>>

CheckedBagDelta ==
    /\ pc = "start"
    /\ pc' = "checked_bag_delta"
    /\ res' = checked_bag_delta(e, <<>>, op, assumptions)
    /\ UNCHANGED <<inputs, job, cache>>

BetterMutate ==
    /\ pc = "start"
    /\ pc' = "better_mutate"
    /\ res' = better_mutate(statevar(e), <<>>, op, assumptions)
    /\ UNCHANGED <<inputs, job, cache>>

Next == Mutate \/ CheckedBagDelta \/ BetterMutate

Spec == Init /\ [][Next]_vars

(***************************************************************************)
(* The calls made under resolve_forks: real_better_mutate, and             *)
(* checked_bag_delta as the flat-map case of bag_delta calls it (lines     *)
(* 987-990), one component of the pair at a time.                          *)
(***************************************************************************)
ForkStms == {add_arg, remove_arg, SSeq(remove_arg, SCall(xs, "add", <<arg2>>)),
             SIf(EEq(arg, arg2), add_arg, SNoOp)}

ForkAssumptions == {T, EIn(arg, xs), arg_is_min}

ForkExprs ==
    {xs, filtered, guarded, ESingleton(arg), ESingleton(min_xs),
     EBinOp(xs, "-", ESingleton(arg2)), EBinOp(ESingleton(arg2), "-", xs),
     EUnaryOp("distinct", xs), min_xs, EArgMin(filtered, identity), EExists(xs),
     ECond(EExists(xs), min_xs, arg2)}

InitForks == Init /\ e \in ForkExprs /\ op \in ForkStms /\ assumptions \in ForkAssumptions

RealBetterMutate ==
    /\ pc = "start"
    /\ pc' = "real_better_mutate"
    /\ res' = real_better_mutate(statevar(e), <<>>, op, assumptions)
    /\ UNCHANGED <<inputs, job, cache>>

ResolveForks ==
    /\ pc = "start"
    /\ pc' = "resolve_forks"
    /\ \E i \in {0, 1} :
          /\ job' = i
          /\ res' = resolve_forks(assumptions, DeltaJob(i, e, <<>>, op))
    /\ UNCHANGED <<inputs, cache>>

NextForks == RealBetterMutate \/ ResolveForks

SpecForks == InitForks /\ [][NextForks]_vars

(***************************************************************************)
(* sketch_update on an lvalue that holds old_value.  The abstract state is *)
(* the bag xs or the map m; maps are also built from bags, key by key.     *)
(***************************************************************************)
m == EVar("m", "Map")

SketchBags ==
    {xs, EBinOp(xs, "+", ESingleton(arg)), EBinOp(xs, "-", ESingleton(arg)),
     EBinOp(EStateVar(xs), "+", ESingleton(arg2)), ESingleton(arg), EEmptyList, filtered}

keyed == EMakeMap2(xs, identity)

SketchMaps ==
    {keyed, EMakeMap2(xs, ELambda(x, arg)), EMakeMap2(filtered, ELambda(x, ZERO)),
     EMakeMap2(EBinOp(EBinOp(xs, "-", ESingleton(arg)), "+", ESingleton(arg2)), ELambda(x, arg2)),
     ECond(EEq(arg, ZERO), keyed, EMakeMap2(ESingleton(arg), identity))}

\* what the map m may become
SketchMapsOf ==
    {m, EMakeMap2(EMapKeys(m), ELambda(x, arg)),
     ECond(EEq(arg, ZERO), m, EMakeMap2(ESingleton(arg), identity)),
     EMakeMap2(EBinOp(EMapKeys(m), "-", ESingleton(arg)), ELambda(x, EMapGet(m, x)))}

SketchAssumptions == {<<>>, <<ENe(arg, ZERO)>>}

ctx == {xs, m}

InitSketch ==
    /\ e = None
    /\ op = None
    /\ assumptions \in SketchAssumptions
    /\ \/ /\ lval = EVar("lval", "Bag")
          /\ old_value \in SketchBags
          /\ new_value \in SketchBags
       \/ /\ lval = EVar("lval", "Map")
          /\ \/ old_value \in SketchMaps /\ new_value \in SketchMaps
             \/ old_value = m /\ new_value \in SketchMapsOf
    /\ job = None
    /\ pc = "start"
    /\ res = None
    /\ NoSolvers

SketchUpdate ==
    /\ pc = "start"
    /\ pc' = "sketch_update"
    /\ res' = sketch_update(lval, old_value, new_value, ctx, assumptions, <<>>)
    /\ UNCHANGED <<inputs, job, cache>>

NextSketch == SketchUpdate

SpecSketch == InitSketch /\ [][NextSketch]_vars


(***************************************************************************)
(* Properties.                                                             *)
(***************************************************************************)
\* the environments of the root context in which the assumptions hold
Models == {env \in RootEnvs : Eval(assumptions, env)}

Returned(fn) == pc = fn /\ ~Raised(res)

\* C1: bag-delta soundness.  When checked_bag_delta(e, ctx, op, assumptions)
\* returns (added, removed) for a collection e, then in every environment
\* that satisfies the assumptions e - removed + added is, as a multiset,
\* the value of mutate(e, op).
BagDeltaSound ==
    Returned("checked_bag_delta") /\ e \in Collections =>
        \A env \in Models :
            BagPlus(BagMinus(Eval(e, env), Eval(res.d, env)), Eval(res.n, env))
                = Eval(mutate(e, op), env)

DeltaDisjoint ==
    Returned("checked_bag_delta") /\ e \in Collections =>
        \A env \in Models : BagMeet(Eval(res.n, env), Eval(res.d, env)) = EmptyBag

\* C4: no-op idempotence.  mutate(e, no-op) is e itself, and
\* checked_bag_delta of a collection on a no-op returns (empty, empty).
NoOpIdempotent ==
    op = SNoOp =>
        /\ pc = "mutate" => res = e
        /\ pc = "checked_bag_delta" /\ e \in Collections => res = pair(EEmptyList, EEmptyList)

NoOpWitness ==
    /\ pc = "checked_bag_delta"
    /\ op = SNoOp
    /\ e = filtered
    /\ res = pair(EEmptyList, EEmptyList)

\* the call the machine made under resolve_forks
CurrentJob ==
    IF pc = "resolve_forks" THEN DeltaJob(job, e, <<>>, op)
    ELSE MutateJob(statevar(e), <<>>, op)

\* C5: fork completeness.  resolve_forks, and so real_better_mutate, never
\* ends in ForkOn; when the call it wraps raised ForkOn on a condition c,
\* what it returns has, in every environment, the value of the result
\* under assumptions + c where c holds and the value of the result under
\* assumptions + not c where it does not.
ForkComplete ==
    pc \in {"resolve_forks", "real_better_mutate"} =>
        /\ res.k # "ForkOn"
        /\ LET r == RunJob(CurrentJob, assumptions)
           IN r.k = "ForkOn" /\ ~Raised(res) =>
                 LET yes == resolve_forks(EAll2(assumptions, r.cond), CurrentJob)
                     no == resolve_forks(EAll2(assumptions, ENot(r.cond)), CurrentJob)
                 IN \A env \in RootEnvs :
                        Eval(res, env) = IF Eval(r.cond, env) THEN Eval(yes, env)
                                         ELSE Eval(no, env)

ForkWitness ==
    /\ pc = "resolve_forks"
    /\ RunJob(CurrentJob, assumptions).k = "ForkOn"
    /\ res.k = "ECond"

\* C6 as stated: neither checked_bag_delta nor better_mutate ever ends by
\* raising ForkOn.
ForkNeverLeaks ==
    pc \in {"checked_bag_delta", "better_mutate"} => res.k # "ForkOn"

\* the direct call the machine made, under assumptions a
DirectCall(a) ==
    IF pc = "checked_bag_delta" THEN checked_bag_delta(e, <<>>, op, a)
    ELSE better_mutate(statevar(e), <<>>, op, a)

\* C6, amended: a direct call of checked_bag_delta or better_mutate does end
\* by raising ForkOn, and only on a condition c that its assumptions decide
\* neither way; the same call under assumptions + c, or under assumptions +
\* not c, does not raise ForkOn on c again.
ForkOnlyUndecided ==
    pc \in {"checked_bag_delta", "better_mutate"} /\ res.k = "ForkOn" =>
        /\ ~valid(EImplies(assumptions, res.cond))
        /\ ~valid(EImplies(assumptions, ENot(res.cond)))
        /\ DirectCall(EAll2(assumptions, res.cond)) # res
        /\ DirectCall(EAll2(assumptions, ENot(res.cond))) # res

ForkLeakWitness ==
    /\ pc = "checked_bag_delta"
    /\ e = xs
    /\ op = remove_arg
    /\ assumptions = T
    /\ res.k = "ForkOn"

\* C7: filtered bag under insertion.  For e a filter of xs and op = xs.add(a),
\* when the assumptions entail that a satisfies the predicate,
\* checked_bag_delta returns added = {a} and removed = empty.
FilterInsert ==
    /\ pc = "checked_bag_delta"
    /\ e.k = "EFilter" /\ e.e = xs
    /\ op.k = "SCall" /\ op.func = "add" /\ op.target = xs
    /\ valid(EImplies(assumptions, apply_to(e.p, op.args[1])))
    => res = pair(ESingleton(op.args[1]), EEmptyList)

FilterInsertWitness ==
    /\ pc = "checked_bag_delta"
    /\ e = filtered
    /\ op = SCall(xs, "add", <<ONE>>)
    /\ assumptions = ENe(arg, ZERO)
    /\ res = pair(ESingleton(ONE), EEmptyList)

\* the smallest element of what is left of bag b without one occurrence
\* of its smallest element
SecondSmallest(b) == SetMin(BagElems(BagMinus(b, BagOf(SetMin(BagElems(b))))))

\* C8: minimum under removal of the minimum.  For e = min xs and
\* op = xs.remove(arg), assuming arg is the minimum and xs has two elements
\* or more, the incrementalized result is a conditional between the heap's
\* second peek and the cached minimum, and it evaluates to the
\* second-smallest element of xs.
MinAfterRemoval ==
    /\ pc = "real_better_mutate"
    /\ e = min_xs /\ op = remove_arg /\ assumptions = arg_is_min
    => /\ res.k = "ECond"
       /\ res.then_branch = EHeapPeek2(EStateVar(to_heap(e)), EStateVar(ELen(xs)))
       /\ res.else_branch = EStateVar(e)
       /\ \A env \in Models : Eval(res, env) = SecondSmallest(env["xs"])

MinAfterRemovalWitness ==
    /\ pc = "real_better_mutate"
    /\ e = min_xs /\ op = remove_arg /\ assumptions = arg_is_min
    /\ ~Raised(res)
    /\ \E env \in Models : Eval(res, env) # Eval(e, env)

\* the environments in which sketch_update's assumptions hold
SketchEnvs ==
    {env \in EnvsFor(free_vars(old_value) \cup free_vars(new_value) \cup {arg}) :
        Eval(EAll(assumptions), env)}

\* the environment that the statement sketch_update returned leaves, run
\* from env with the lvalue holding old_value
After(env) ==
    Exec(InlineCalls(res.stm, res.subgoals),
         ("touched" :> {}) @@ (lval.id :> Eval(old_value, env)) @@ env)

\* C9: map update.  Run on a map equal to old, the statement sketch_update
\* returns deletes exactly the keys of old that new lacks, upserts exactly
\* the keys of new that old lacks or maps to another value, touches no
\* other key, and leaves a map equal to new.
MapUpdateExact ==
    pc = "sketch_update" /\ TypeOf(lval) = "Map" =>
        \A env \in SketchEnvs :
            LET old == Eval(old_value, env)
                new == Eval(new_value, env)
                after == After(env)
            IN /\ after[lval.id] = new
               /\ after["touched"] =
                     {<<"del", key>> : key \in (DOMAIN old) \ (DOMAIN new)}
                     \cup {<<"upsert", key>> :
                              key \in {j \in DOMAIN new : j \notin DOMAIN old \/ old[j] # new[j]}}

MapUpdateWitness ==
    /\ pc = "sketch_update"
    /\ TypeOf(lval) = "Map"
    /\ \E env \in SketchEnvs :
          /\ \E key \in Val : {<<"del", key>>} \subseteq After(env)["touched"]
          /\ \E key \in DOMAIN Eval(old_value, env) : <<"upsert", key>> \in After(env)["touched"]
          /\ \E key \in Val \ DOMAIN Eval(old_value, env) : <<"upsert", key>> \in After(env)["touched"]

\* C10: bag update.  Run on a bag equal to old, the statement sketch_update
\* returns (remove each element of old - new, then add each element of
\* new - old) leaves the lvalue equal to new as a multiset.
BagUpdateCorrect ==
    pc = "sketch_update" /\ TypeOf(lval) = "Bag" =>
        \A env \in SketchEnvs : After(env)[lval.id] = Eval(new_value, env)

BagUpdateWitness ==
    /\ pc = "sketch_update"
    /\ TypeOf(lval) = "Bag"
    /\ res.stm.k = "SSeq"
    /\ \E env \in SketchEnvs :
          /\ Eval(old_value, env) # Eval(new_value, env)
          /\ BagMinus(Eval(old_value, env), Eval(new_value, env)) # EmptyBag
          /\ BagMinus(Eval(new_value, env), Eval(old_value, env)) # EmptyBag

(***************************************************************************)
(* The runtime incrementalizer against recomputation.                      *)
(***************************************************************************)
\* C11: whenever better_mutate(EStateVar(e), ctx, op, assumptions) returns,
\* its result, cached sub-expressions read at their pre-state value, has in
\* every environment that satisfies the assumptions the value of
\* mutate(e, op).
BetterMutateAgrees ==
    Returned("better_mutate") =>
        \A env \in Models : Eval(res, env) = Eval(mutate(e, op), env)

(***************************************************************************)
(* argmin and argmax under operations that change the comparator or remove *)
(* several elements.                                                       *)
(***************************************************************************)
bylen == ELambda(x, EBinOp(x, "+", ELen(xs)))

\* xs when arg = arg2, and the empty bag otherwise
gated == ECond(EEq(arg, arg2), xs, EEmptyList)

ArgExprs ==
    {min_xs, EArgMax(xs, identity), EArgMin(filtered, identity), EArgMin(xs, bylen),
     EArgMin(gated, identity)}

ArgStms ==
    {add_arg, remove_arg, SSeq(remove_arg, SCall(xs, "add", <<arg2>>)),
     SSeq(remove_arg, SCall(xs, "remove", <<arg2>>)),
     SAssign(xs, ESingleton(arg)),
     SCall(xs, "remove_all", <<filtered>>),
     SCall(xs, "remove_all", <<EBinOp(ESingleton(arg), "+", ESingleton(arg2))>>),
     SIf(EEq(arg, arg2), remove_arg, SNoOp)}

InitArgs ==
    /\ e \in ArgExprs
    /\ op \in ArgStms
    /\ assumptions \in ForkAssumptions
    /\ lval = None
    /\ old_value = None
    /\ new_value = None
    /\ job = None
    /\ pc = "start"
    /\ res = None
    /\ NoSolvers

NextArgs == BetterMutate

SpecArgs == InitArgs /\ [][NextArgs]_vars

\* op changes the comparator of e
ComparatorChanged == ~alpha_equivalent(e.f, mutate(e.f, op))

\* in some environment of the assumptions op removes several elements of the
\* collection under e
SeveralRemoved ==
    \E env \in Models :
        BagSize(BagMinus(Eval(e.e, env), Eval(mutate(e.e, op), env))) > 1

twice(b) == EBinOp(b, "+", b)

\* a bag expression of 191 nodes
many == twice(twice(twice(twice(twice(twice(ESingleton(arg)))))))

LimitExprs == {xs, EIntersect(xs, ESingleton(arg2)), EBinOp(xs, "-", filtered),
               EUnaryOp("distinct", filtered)}

LimitStms == {add_arg, remove_arg, SCall(xs, "add_all", <<many>>),
              SCall(xs, "remove_all", <<many>>),
              SSeq(SCall(xs, "add_all", <<many>>), SCall(xs, "remove_all", <<many>>))}

InitLimits ==
    /\ e \in LimitExprs
    /\ op \in LimitStms
    /\ assumptions \in ForkAssumptions
    /\ lval = None
    /\ old_value = None
    /\ new_value = None
    /\ job = None
    /\ pc = "start"
    /\ res = None
    /\ NoSolvers

NextLimits == CheckedBagDelta

SpecLimits == InitLimits /\ [][NextLimits]_vars

\* no case of bag_delta is for e
NoDeltaCase ==
    /\ e.k \notin {"EStateVar", "EMap", "EFilter", "EFlatMap", "ESingleton",
                   "EEmptyList", "ECond", "EVar"}
    /\ ~IsPlus(e)
    /\ ~IsMinus(e)
    /\ ~IsDistinctOp(e)

\* the delta bag_delta computed for e has a removed part above the size bound
Oversized ==
    LET r == bag_delta_f(e, <<>>, op, assumptions)
    IN ~Raised(r) /\ ExpSize(r.d) > SizeLimit

\* C13: when no case of bag_delta applies to e, or the delta computed for e
\* exceeds the size bound, the delta engine ends with NotEfficient and with
\* no other kind of error.
GivesUpNotEfficient ==
    pc = "checked_bag_delta" /\ (NoDeltaCase \/ Oversized) => res.k = "NotEfficient"

(***************************************************************************)
(* fork called on a condition, with two distinct branches.                 *)
(***************************************************************************)
ForkAtoms == {EIn(arg, xs), EExists(xs), EEq(arg, min_xs), T, F}

ForkConds ==
    ForkAtoms
    \cup {EBinOp(a, o, b) : a \in ForkAtoms, b \in ForkAtoms, o \in {"and", "or"}}
    \cup {ENot(a) : a \in ForkAtoms}
    \cup {ENot(EBinOp(a, "and", ENot(b))) : a \in ForkAtoms, b \in ForkAtoms}
    \cup {ECond(a, b, c) : a \in ForkAtoms \ {T, F}, b \in ForkAtoms, c \in ForkAtoms}

ForkThen == ESingleton(ONE)
ForkElse == EEmptyList

InitFork ==
    /\ e \in ForkConds
    /\ op = None
    /\ assumptions \in ForkAssumptions
    /\ lval = None
    /\ old_value = None
    /\ new_value = None
    /\ job = None
    /\ pc = "start"
    /\ res = None
    /\ NoSolvers

\* fork(context, assumptions, e, then_branch, else_branch)
Fork ==
    /\ pc = "start"
    /\ pc' = "fork"
    /\ res' = fork(<<>>, assumptions, e, ForkThen, ForkElse)
    /\ UNCHANGED <<inputs, job, cache>>

NextFork == Fork

SpecFork == InitFork /\ [][NextFork]_vars

\* C14: fork is sound.  When it returns, it returns the then-branch only if
\* the condition holds in every environment that satisfies the assumptions,
\* and the else-branch only if the condition fails in every such
\* environment; for atomic conditions and for and, or, not and conditionals.
ForkSound ==
    Returned("fork") =>
        /\ res \in {ForkThen, ForkElse}
        /\ res = ForkThen => \A env \in Models : Eval(e, env)
        /\ res = ForkElse => \A env \in Models : ~Eval(e, env)

ForkSoundWitness ==
    /\ Returned("fork")
    /\ e.k = "ECond"
    /\ {e.then_branch, e.else_branch} \cap {T, F} = {}
    /\ assumptions # T
    /\ res = ForkThen

\* the assumptions entail the condition e, or entail its negation
Entailed == (\A env \in Models : Eval(e, env)) \/ (\A env \in Models : ~Eval(e, env))

\* C16: fork raises ForkOn only when the whole condition is undecided.  If the
\* assumptions entail the condition or its negation (A and B with A provably
\* false, A or B with A provably true), fork returns a branch without
\* raising, even when a sub-condition is undecided.
ForkOnlyWholeUndecided ==
    pc = "fork" /\ Entailed => res.k # "ForkOn"

(***************************************************************************)
(* The recursion of resolve_forks.                                         *)
(***************************************************************************)
SplitExprs == {xs, filtered, guarded, ESingleton(min_xs),
               EBinOp(xs, "-", ESingleton(arg2)), EUnaryOp("distinct", xs)}

InitSplits == InitForks /\ e \in SplitExprs

NextSplits == ResolveForks

SpecSplits == InitSplits /\ [][NextSplits]_vars

\* the conditions resolve_forks(a, func) splits on, one sequence for each
\* path of its recursion, outermost call first
RECURSIVE SplitPaths(_, _)
SplitPaths(a, func) ==
    LET r == RunJob(func, a)
    IN IF r.k = "ForkOn"
       THEN {<<r.cond>> \o p : p \in SplitPaths(EAll2(a, r.cond), func)
                                     \cup SplitPaths(EAll2(a, ENot(r.cond)), func)}
       ELSE {<<>>}

\* the conditions met on some path
SplitConds(paths) == UNION {{p[i] : i \in 1..Len(p)} : p \in paths}

zeros == EFilter(xs, ELambda(x, EEq(x, ZERO)))

BoolAtoms == {EExists(xs), EExists(filtered), EExists(zeros)}

BoolExprs ==
    BoolAtoms
    \cup {ENot(a) : a \in BoolAtoms}
    \cup {EBinOp(a, o, b) : a \in BoolAtoms,
                            b \in BoolAtoms \cup {ENot(EExists(xs)), EEq(arg, arg2)},
                            o \in {"and", "or"}}

InitBool ==
    /\ e \in BoolExprs
    /\ op \in ForkStms \cup {SAssign(xs, ESingleton(arg))}
    /\ assumptions \in ForkAssumptions
    /\ lval = None
    /\ old_value = None
    /\ new_value \in {T, F}
    /\ job = None
    /\ pc = "start"
    /\ res = None
    /\ NoSolvers

\* became_bool(e, context, op, val, assumptions)
BecameBool ==
    /\ pc = "start"
    /\ pc' = "became_bool"
    /\ res' = became_bool(e, <<>>, op, new_value = T, assumptions)
    /\ UNCHANGED <<inputs, job, cache>>

NextBool == BecameBool

SpecBool == InitBool /\ [][NextBool]_vars

\* C17: became_bool is exact.  For a boolean e that evaluates to (not val)
\* before op, what became_bool(e, ctx, op, val, assumptions) returns is true
\* exactly in the environments of the assumptions where e evaluates to val
\* after op; for negation, exists, a conjunction becoming false and a
\* disjunction becoming true or false.
BecameBoolExact ==
    Returned("became_bool") =>
        \A env \in Models :
            Eval(e, env) = (new_value # T) =>
                Eval(res, env) = (Eval(mutate(e, op), env) = (new_value = T))

(***************************************************************************)
(* The cases of bag_delta: conditional, difference, distinct.              *)
(***************************************************************************)
\* op leaves the guard of the conditional e as it is
GuardKept == alpha_equivalent(mutate(e.cond, op), e.cond)

\* applying the delta res to e gives, in env, the value of mutate(e, op)
DeltaApplies(env) ==
    BagPlus(BagMinus(Eval(e, env), Eval(res.d, env)), Eval(res.n, env))
        = Eval(mutate(e, op), env)

\* C18: the delta of a conditional e = c ? a : b.  When mutate(c, op) is
\* alpha-equivalent to c, the delta is (c ? added_a : added_b,
\* c ? removed_a : removed_b); otherwise the delta of the four sub-cases
\* satisfies e - removed + added = mutate(e, op) in every environment of the
\* assumptions, whether or not op changes the arms or flips the guard.
CondDelta ==
    Returned("checked_bag_delta") /\ e \in Collections /\ e.k = "ECond" =>
        IF GuardKept
        THEN LET a == checked_bag_delta(e.then_branch, <<>>, op, assumptions)
                 b == checked_bag_delta(e.else_branch, <<>>, op, assumptions)
             IN res = pair(cond(e.cond, a.n, b.n), cond(e.cond, a.d, b.d))
        ELSE \A env \in Models : DeltaApplies(env)

CaseExprs ==
    {EBinOp(xs, "-", ESingleton(arg2)), EBinOp(xs, "-", filtered), EBinOp(xs, "-", zeros),
     EUnaryOp("distinct", xs), EUnaryOp("distinct", filtered),
     EUnaryOp("distinct", EBinOp(xs, "+", ESingleton(arg2)))}

InitCases ==
    /\ e \in CaseExprs
    /\ op \in Stms
    /\ assumptions \in Assumptions
    /\ lval = None
    /\ old_value = None
    /\ new_value = None
    /\ job = None
    /\ pc = "start"
    /\ res = None
    /\ NoSolvers

NextCases == CheckedBagDelta

SpecCases == InitCases /\ [][NextCases]_vars

\* in env the subtrahend of the difference e is a sub-bag of what it is
\* subtracted from, before op and after it
SubBagKept(env) ==
    /\ SubBag(Eval(e.e2, env), Eval(e.e1, env))
    /\ SubBag(Eval(mutate(e.e2, op), env), Eval(mutate(e.e1, op), env))

\* C19: the delta of a difference e = a - b, b a sub-bag of a before and
\* after op: added = added(a) + removed(b), removed = removed(a) + added(b),
\* and the pair satisfies e - removed + added = mutate(e, op).
DiffDelta ==
    Returned("checked_bag_delta") /\ IsMinus(e) =>
        /\ LET a == checked_bag_delta(e.e1, <<>>, op, assumptions)
               b == checked_bag_delta(e.e2, <<>>, op, assumptions)
           IN res = pair(bag_union(a.n, b.d), bag_union(a.d, b.n))
        /\ \A env \in Models : SubBagKept(env) => DeltaApplies(env)

\* C20: the delta of e = distinct(xs), xs not known to be free of duplicates:
\* removed is the distinct elements removed from xs that occur exactly once
\* in xs before op, added is the distinct elements added to xs, and applying
\* the delta to distinct(xs) gives distinct(mutate(xs, op)).
DistinctDelta ==
    Returned("checked_bag_delta") /\ IsDistinctOp(e) /\ ~definitely(are_unique(e.e)) =>
        LET r == checked_bag_delta(e.e, <<>>, op, assumptions)
        IN \A env \in Models :
              /\ Eval(res.n, env) = BagDistinct(Eval(r.n, env))
              /\ Eval(res.d, env) =
                     [v \in Val |-> IF Eval(r.d, env)[v] > 0 /\ Eval(e.e, env)[v] = 1
                                    THEN 1 ELSE 0]
              /\ DeltaApplies(env)

\* C21: removed elements come from the old value.  For every pair
\* (added, removed) that checked_bag_delta returns for a collection e,
\* removed is a sub-bag of the pre-state value of e in every environment that
\* satisfies the assumptions, a bare variable included.
RemovedFromOld ==
    Returned("checked_bag_delta") /\ e \in Collections =>
        \A env \in Models : SubBag(Eval(res.d, env), Eval(e, env))

\* the removed part of the delta of the collection under e = argmin / argmax
RemovedOf == checked_bag_delta(EStateVar(e.e), <<>>, op, assumptions)

\* the oracle proves that op removes at most one element
AtMostOneRemoved ==
    /\ ~Raised(RemovedOf)
    /\ valid(EImplies(assumptions, ELe(ELen(RemovedOf.d), ONE)))

\* C22: argmin / argmax closed form.  When the comparator is unaffected by op
\* and the oracle proves that at most one element is removed (possibly none),
\* better_mutate returns an expression and raises nothing.
ArgMinClosedForm ==
    pc = "better_mutate" /\ ~ComparatorChanged /\ AtMostOneRemoved => ~Raised(res)

\* C23: existence by cardinality.  For e = exists xs that op changes,
\* better_mutate returns len(cached xs) + len(added) > len(removed) for the
\* bag delta (added, removed) of xs, and this comparison is true exactly when
\* mutate(xs, op) is non-empty, in every environment of the assumptions.
ExistsByCardinality ==
    /\ Returned("better_mutate")
    /\ e.k = "EUnaryOp" /\ e.op = "exists"
    /\ ~alpha_equivalent(e, mutate(e, op))
    => LET r == checked_bag_delta(e.e, <<>>, op, assumptions)
       IN /\ res = EGt(EBinOp(EStateVar(len_of(e.e)), "+", len_of(r.n)), len_of(r.d))
          /\ \A env \in Models :
                Eval(res, env) = (Eval(mutate(e.e, op), env) # EmptyBag)

(***************************************************************************)
(* Sequences of statements: the order in which mutate applies the halves.  *)
(***************************************************************************)
declare_y == SDecl("y", min_xs)

add_y == SCall(xs, "add_all", <<ESingleton(y)>>)

SeqAtoms ==
    {add_arg, remove_arg, SAssign(xs, ESingleton(arg2)),
     SIf(EIn(arg2, xs), SCall(xs, "remove", <<arg2>>), add_arg)}

\* sequences of two and of three statements, nested to the left and to the
\* right, with and without a local declaration that a later statement reads
SeqStms ==
    {SSeq(a, b) : a, b \in SeqAtoms}
        \cup {SSeq(SSeq(a, b), c) : a, b, c \in SeqAtoms}
        \cup {SSeq(a, SSeq(b, c)) : a, b, c \in SeqAtoms}
        \cup {SSeq(declare_y, add_y)}
        \cup UNION {{SSeq(SSeq(a, declare_y), add_y), SSeq(a, SSeq(declare_y, add_y)),
                     SSeq(SSeq(declare_y, a), add_y), SSeq(declare_y, SSeq(a, add_y)),
                     SSeq(SSeq(declare_y, add_y), a), SSeq(declare_y, SSeq(add_y, a))}
                        : a \in SeqAtoms}

SeqExprs == {xs, filtered, min_xs, EIn(arg, xs)}

InitSeq ==
    /\ e \in SeqExprs
    /\ op \in SeqStms
    /\ assumptions = T
    /\ lval = None
    /\ old_value = None
    /\ new_value = None
    /\ job = None
    /\ pc = "start"
    /\ res = None
    /\ NoSolvers

NextSeq == Mutate

SpecSeq == InitSeq /\ [][NextSeq]_vars

\* the same three statements grouped the other way
Regrouped(s) ==
    IF s.s1.k = "SSeq" THEN SSeq(s.s1.s1, SSeq(s.s1.s2, s.s2))
    ELSE IF s.s2.k = "SSeq" THEN SSeq(SSeq(s.s1, s.s2.s1), s.s2.s2)
    ELSE s

\* C24: sequence ordering.  For op = s1; s2, a nested s1 is right-associated
\* first; otherwise mutate(e, op) is mutate(mutate(e, s2), s1) with the
\* variable that s1 declares replaced by its initializer.  Its value is the
\* value of e after s1 and then s2 have run, and both groupings of three
\* statements give the same result.
SeqOrdering ==
    pc = "mutate" /\ op.k = "SSeq" =>
        /\ ~Raised(res)
        /\ IF op.s1.k = "SSeq"
           THEN res = mutate(e, SSeq(op.s1.s1, SSeq(op.s1.s2, op.s2)))
           ELSE LET inner == mutate(mutate(e, op.s2), op.s1)
                IN res = IF op.s1.k = "SDecl" THEN subst(inner, op.s1.id, op.s1.val)
                         ELSE inner
        /\ \A env \in RootEnvs :
              Eval(res, env) = Eval(e, Exec(op.s2, Exec(op.s1, env)))
        /\ res = mutate(e, Regrouped(op))

\* a sequence of three statements, grouped to the left, whose last two do
\* not commute on e
SeqOrderingWitness ==
    /\ pc = "mutate"
    /\ op.k = "SSeq" /\ op.s1.k = "SSeq"
    /\ {op.s1.s1, op.s1.s2, op.s2} \subseteq SeqAtoms
    /\ ~Raised(res)
    /\ \E env \in RootEnvs :
          Eval(res, env) # Eval(e, Exec(op.s1, Exec(op.s2, env)))

(***************************************************************************)
(* Assignments through handles: any two handles of one type may alias.     *)
(***************************************************************************)
MaxAddr == 1

Addr == 0..MaxAddr

h == EVar("h", "Handle")
g == EVar("g", "Handle")
other == EVar("other", "Handle2")
hs == EVar("hs", "Bag")

val(a) == EGetField(a, "val")

set_val(a, v) == SAssign(val(a), v)

HandleExprs ==
    {val(h), val(g), val(other), EEq(h, g),
     EBinOp(val(h), "+", val(g)),
     ECond(EEq(h, g), val(h), arg),
     EMap(hs, ELambda(g, val(g))),
     EMap(hs, ELambda(h, val(h))),
     EFilter(hs, ELambda(h, EEq(val(h), arg))),
     EFilter(hs, ELambda(g, EEq(val(g), val(h)))),
     EMap(hs, ELambda(h, ELen(EFilter(hs, ELambda(g, EEq(val(g), val(h)))))))}

HandleStms ==
    {set_val(h, arg), set_val(h, ONE), set_val(g, val(h)), set_val(h, val(g)),
     set_val(other, arg), set_val(h, EBinOp(val(h), "+", val(g))),
     SSeq(set_val(h, arg), set_val(g, ONE)),
     SIf(EEq(val(g), arg), set_val(h, ONE), SNoOp)}

InitHandles ==
    /\ e \in HandleExprs
    /\ op \in HandleStms
    /\ assumptions = T
    /\ lval = None
    /\ old_value = None
    /\ new_value = None
    /\ job = None
    /\ pc = "start"
    /\ res = None
    /\ NoSolvers

NextHandles == Mutate

SpecHandles == InitHandles /\ [][NextHandles]_vars

\* bags of at most MaxLen addresses
HandleBags == {b \in Bags : \A v \in Val : b[v] > 0 => v \in Addr}

\* the environments of the handle inputs: an address for each handle, the
\* payloads at the addresses of each handle type, a bag of handles and arg
HandleEnvs ==
    {[h |-> a1, g |-> a2, other |-> a3, hs |-> b, arg |-> v, Handle |-> m1, Handle2 |-> m2] :
        a1 \in Addr, a2 \in Addr, b \in HandleBags, v \in Val, m1 \in [Addr -> Val],
        a3 \in IF "other" \in AllIds(e) \cup StmIds(op) THEN Addr ELSE {0},
        m2 \in IF "other" \in AllIds(e) \cup StmIds(op) THEN [Addr -> Val]
               ELSE {[a \in Addr |-> 0]}}

\* C25: handle aliasing.  For an assignment h.val = v through a handle h,
\* mutate rewrites a read x.val through a handle x of the type of h to
\* (x == h) ? v : x.val, and the value of mutate(e, op) is the value of e
\* once op has run: a read through an alias of h yields v, any other read
\* is unchanged, and no variable of h or v is captured by a binder of e.
HandleAliasing ==
    pc = "mutate" =>
        /\ ~Raised(res)
        /\ e.k = "EGetField" /\ op.k = "SAssign" =>
              res = IF TypeOf(e.e) = TypeOf(op.lhs.e)
                    THEN ECond(EEq(e.e, op.lhs.e), op.rhs, e) ELSE e
        /\ \A env \in HandleEnvs : Eval(res, env) = Eval(e, Exec(op, env))

(***************************************************************************)
(* The solver cache: solver_for called again and again, on contexts of     *)
(* the root and under one and two binders.                                 *)
(***************************************************************************)
MaxCalls == 4

Contexts == {<<>>, <<x>>, <<x, y>>}

\* the n-th solver constructed, made for the variables of context
ModelCachingSolver(context, n) ==
    [k |-> "ModelCachingSolver", vars |-> context, serial |-> n]

\* solver_for that makes a solver each time it is asked
solver_for_uncached(context) ==
    [s |-> ModelCachingSolver(context, made + 1),
     _SOLVERS |-> (context :> ModelCachingSolver(context, made + 1)) @@ _SOLVERS,
     made |-> made + 1]

\* what solver_for returns, and the cache and the count of solvers it leaves
solver_for(context) ==
    IF context \in DOMAIN _SOLVERS
    THEN [s |-> _SOLVERS[context], _SOLVERS |-> _SOLVERS, made |-> made]
    ELSE [s |-> ModelCachingSolver(context, made + 1),
          _SOLVERS |-> (context :> ModelCachingSolver(context, made + 1)) @@ _SOLVERS,
          made |-> made + 1]

InitSolvers ==
    /\ e = None
    /\ op = None
    /\ assumptions = None
    /\ lval = None
    /\ old_value = None
    /\ new_value = None
    /\ job = None
    /\ pc = "start"
    /\ res = None
    /\ NoSolvers

SolverFor ==
    /\ Len(requests) < MaxCalls
    /\ \E context \in Contexts :
          LET r == solver_for(context)
          IN /\ res' = r.s
             /\ _SOLVERS' = r._SOLVERS
             /\ made' = r.made
             /\ requests' = Append(requests, context)
    /\ pc' = "solver_for"
    /\ UNCHANGED <<inputs, job>>

NextSolvers == SolverFor

SpecSolvers == InitSolvers /\ [][NextSolvers]_vars

Requested == {requests[i] : i \in 1..Len(requests)}

\* C26: the solver cache.  After any sequence of solver_for calls the cache
\* holds one solver for each context ever requested and for no other, as
\* many solvers were made as contexts were requested, no two contexts share a
\* solver, and the call just made returned the solver the cache holds for
\* its context.
OneSolverPerContext ==
    /\ DOMAIN _SOLVERS = Requested
    /\ made = Cardinality(Requested)
    /\ \A c1, c2 \in DOMAIN _SOLVERS : _SOLVERS[c1] = _SOLVERS[c2] => c1 = c2
    /\ pc = "solver_for" => res = _SOLVERS[requests[Len(requests)]]

\* a context requested a second time after another context was requested
SolverCacheWitness ==
    /\ Len(requests) = 3
    /\ requests[1] = requests[3]
    /\ requests[2] # requests[1]
    /\ res = _SOLVERS[requests[1]]
    /\ made = 2

(***************************************************************************)
(* The model search on formulas with and without collection variables.     *)
(***************************************************************************)
ys == EVar("ys", "Bag")

ModelAtoms ==
    {T, F, EEq(arg, ZERO), EGt(arg, arg2), EExists(xs), EEmpty(xs), EIn(arg, xs),
     EGe(ELen(xs), ENum(2)), EGt(ELen(ys), ELen(xs)), EEq(xs, ys)}

Formulas ==
    ModelAtoms \cup {EBinOp(a, "and", b) : a, b \in ModelAtoms \ {T, F}}
               \cup {ENot(a) : a \in ModelAtoms}

InitModels ==
    /\ e \in Formulas
    /\ op = None
    /\ assumptions = T
    /\ lval = None
    /\ old_value = None
    /\ new_value = None
    /\ job = None
    /\ pc = "start"
    /\ res = None
    /\ NoSolvers

MinimalModel ==
    /\ pc = "start"
    /\ pc' = "minimal_model"
    /\ res' = minimal_model(e)
    /\ UNCHANGED <<inputs, job, cache>>

NextModels == MinimalModel

SpecModels == InitModels /\ [][NextModels]_vars

\* the summed length of the collections of formula in env
RECURSIVE SummedLength(_, _)
SummedLength(ids, env) ==
    IF ids = {} THEN 0
    ELSE LET v == CHOOSE w \in ids : TRUE
         IN BagSize(env[v]) + SummedLength(ids \ {v}, env)

\* C27: minimal_model finds a smallest model.  minimal_model(formula) returns
\* None only when formula is unsatisfiable; when formula is satisfiable it
\* returns a model of formula in which the summed length of the collections
\* is the least among all models.
MinimalModelSmallest ==
    pc = "minimal_model" =>
        LET collections == IdsOfType(free_vars(e), "Bag")
        IN /\ res = None <=> ~satisfiable(e)
           /\ res # None =>
                 /\ Eval(e, res.env)
                 /\ \A env \in EnvsFor(free_vars(e)) :
                       Eval(e, env) =>
                           SummedLength(collections, res.env) <= SummedLength(collections, env)

(***************************************************************************)
(* The queries that sketch_update and mutate_in_place emit.                *)
(***************************************************************************)
SubgoalBags == {EBinOp(xs, "+", ESingleton(arg)), filtered}

SubgoalMaps == {keyed, EMakeMap2(filtered, ELambda(x, arg2))}

SubgoalStms == {add_arg, remove_arg, SSeq(remove_arg, SCall(xs, "add", <<arg2>>))}

InitSubgoals ==
    /\ assumptions \in SketchAssumptions
    /\ op \in SubgoalStms
    /\ \/ /\ lval = EVar("lval", "Bag")
          /\ e \in SubgoalBags
          /\ old_value \in SubgoalBags
          /\ new_value \in SubgoalBags
       \/ /\ lval = EVar("lval", "Map")
          /\ e \in SubgoalMaps
          /\ old_value \in SubgoalMaps
          /\ new_value \in SubgoalMaps
    /\ job = None
    /\ pc = "start"
    /\ res = None
    /\ NoSolvers

MutateInPlace ==
    /\ pc = "start"
    /\ pc' = "mutate_in_place"
    /\ res' = mutate_in_place(lval, e, op, ctx, assumptions, <<>>)
    /\ UNCHANGED <<inputs, job, cache>>

NextSubgoals == SketchUpdate \/ MutateInPlace

SpecSubgoals == InitSubgoals /\ [][NextSubgoals]_vars

\* the calls of queries placed in a statement
RECURSIVE CallsIn(_)
CallsIn(s) ==
    CASE s.k = "SAssign" -> IF s.rhs.k = "ECall" THEN {s.rhs} ELSE {}
      [] s.k = "SSeq" -> CallsIn(s.s1) \cup CallsIn(s.s2)
      [] s.k = "SForEach" -> (IF s.iter.k = "ECall" THEN {s.iter} ELSE {}) \cup CallsIn(s.body)
      [] s.k = "SMapUpdate" -> CallsIn(s.change)
      [] OTHER -> {}

\* the free variables of a query: those of its assumptions and of its body
QueryVars(q) ==
    free_vars(q.ret) \cup UNION {free_vars(q.assumptions[i]) : i \in 1..Len(q.assumptions)}

\* C28: subgoal closure.  Every query that sketch_update or mutate_in_place
\* returns starts with the caller's assumptions, has as parameters, each
\* once, the free variables of the query that are not abstract state, and is
\* called in the statement with those variables in that order; every call in
\* the statement is the call of one returned query, those emitted by the
\* recursion on map values included.
SubgoalClosure ==
    pc \in {"sketch_update", "mutate_in_place"} =>
        LET qs == res.subgoals
            calls == CallsIn(res.stm)
        IN /\ \A i \in 1..Len(qs) :
                 /\ Len(qs[i].assumptions) >= Len(assumptions)
                 /\ SubSeq(qs[i].assumptions, 1, Len(assumptions)) = assumptions
                 /\ {qs[i].args[j] : j \in 1..Len(qs[i].args)} = QueryVars(qs[i]) \ ctx
                 /\ Len(qs[i].args) = Cardinality(QueryVars(qs[i]) \ ctx)
                 /\ \E c \in calls : c.func = qs[i].name /\ c.args = qs[i].args
                 /\ \A j \in 1..Len(qs) : qs[j].name = qs[i].name => j = i
           /\ \A c \in calls :
                 \E i \in 1..Len(qs) : qs[i].name = c.func /\ qs[i].args = c.args

\* a map update under an assumption: the query of the recursion on the
\* values carries the assumptions of its case and takes the key as parameter
SubgoalClosureWitness ==
    /\ pc = "mutate_in_place"
    /\ TypeOf(lval) = "Map"
    /\ assumptions # <<>>
    /\ \E i \in 1..Len(res.subgoals) :
          /\ Len(res.subgoals[i].assumptions) > Len(assumptions)
          /\ Len(res.subgoals[i].args) >= 2

(***************************************************************************)
(* efilter against the filter it stands for.  The predicate f is held in   *)
(* op.                                                                     *)
(***************************************************************************)
constantly == ELambda(x, arg)

FilterBags ==
    {EEmptyList, xs, ESingleton(arg), ESingleton(ZERO), filtered, gated,
     EBinOp(xs, "+", ESingleton(arg)), EBinOp(ESingleton(arg), "+", ESingleton(arg2)),
     EBinOp(xs, "-", ESingleton(arg)), EMap(xs, identity), EMap(xs, constantly),
     EMap(ESingleton(arg), ELambda(x, arg2))}

Predicates ==
    {ELambda(x, T), ELambda(x, F), nonzero, ELambda(x, EEq(x, arg)),
     ELambda(x, EIn(x, xs)), ELambda(y, ENe(y, arg2)), ELambda(x, EEq(arg, arg2)),
     ELambda(x, EGt(arg, x)), ELambda(y, ENot(EEq(y, arg)))}

InitFilters ==
    /\ e \in FilterBags
    /\ op \in Predicates
    /\ assumptions = T
    /\ lval = None
    /\ old_value = None
    /\ new_value = None
    /\ job = None
    /\ pc = "start"
    /\ res = None
    /\ NoSolvers

Efilter ==
    /\ pc = "start"
    /\ pc' = "efilter"
    /\ res' = efilter(e, op)
    /\ UNCHANGED <<inputs, job, cache>>

NextFilters == Efilter

SpecFilters == InitFilters /\ [][NextFilters]_vars

\* C30: efilter preserves meaning.  For every bag expression e and predicate
\* f, efilter(e, f) evaluates in every environment to the bag that
\* Filter(e, f) evaluates to.
EfilterPreservesMeaning ==
    pc = "efilter" =>
        /\ ~Raised(res)
        /\ \A env \in RootEnvs : Eval(res, env) = Eval(EFilter(e, op), env)

(***************************************************************************)
(* optimize against the expression it rewrites.                            *)
(***************************************************************************)
whether == ECond(EEq(arg, ZERO), ONE, ZERO)

OptimizeExprs ==
    {arg, xs, EStateVar(xs), EEq(arg, arg2), ENe(arg, ZERO), EIn(arg, xs),
     EBinOp(EIn(arg, xs), "and", EExists(xs)),
     EBinOp(EEq(arg, ZERO), "or", EEq(arg, arg2)),
     EBinOp(arg, "+", ZERO), EBinOp(EEmptyList, "+", xs), EBinOp(xs, "+", ESingleton(arg)),
     filtered, EFilter(xs, ELambda(x, T)), EFilter(ESingleton(arg), nonzero),
     EFilter(EBinOp(xs, "-", ESingleton(arg)), nonzero),
     EMap(xs, identity), EMap(xs, constantly), EMap(ESingleton(arg), constantly),
     EMap(EBinOp(xs, "+", ESingleton(arg2)), constantly),
     EMap(EBinOp(xs, "-", ESingleton(arg2)), constantly),
     EGetField(EMakeRecord(arg, arg2), "snd"), ELen(filtered),
     whether, gated, ECond(EIn(arg, xs), xs, EBinOp(xs, "+", ESingleton(arg))),
     ECond(EEq(arg, arg2), arg, arg2), ECond(EEq(arg, ZERO), ZERO, arg)}

PathConditions == {T, ENe(arg, ZERO), EIn(arg, xs), EEq(arg, arg2)}

InitOptimize ==
    /\ e \in OptimizeExprs
    /\ assumptions \in PathConditions
    /\ op = None
    /\ lval = None
    /\ old_value = None
    /\ new_value = None
    /\ job = None
    /\ pc = "start"
    /\ res = None
    /\ NoSolvers

Optimize ==
    /\ pc = "start"
    /\ pc' = "optimize"
    /\ res' = optimize(e, <<>>, assumptions)
    /\ UNCHANGED <<inputs, job, cache>>

NextOptimize == Optimize

SpecOptimize == InitOptimize /\ [][NextOptimize]_vars

\* C29: optimize preserves meaning.  In every environment that satisfies the
\* path condition, optimize(e, ctx, pc) evaluates to the value of e, for
\* every form of e it handles, a conditional included.
OptimizePreservesMeaning ==
    pc = "optimize" =>
        /\ ~Raised(res)
        /\ \A env \in Models : Eval(res, env) = Eval(e, env)

=============================================================================
